---------------------------- MODULE Spec2Model ----------------------------
(***************************************************************************)
(* Earthquake alert firmware: STA/LTA detector, persistent event queue,    *)
(* alert dispatch and the sampling loop that ties them together.           *)
(*                                                                         *)
(* Units.  Time is counted in sample ticks (one tick = sampleInterval).    *)
(* A sample is represented by its gravity-compensated magnitude            *)
(* |sqrt(x^2+y^2+z^2) - 9.81| expressed in milli-g, so that mag/9.81 (the  *)
(* PGA in g) is the integer mag itself in milli-g.  CAV is in milli-g      *)
(* ticks.  The window lengths are scaled down from 100 / 3000 / 300        *)
(* samples and the queue capacity from 100 entries; the comparisons, the   *)
(* index arithmetic and the order of the assignments are those of the      *)
(* source.                                                                 *)
(***************************************************************************)
EXTENDS Integers, Sequences, FiniteSets, TLC

(***************************************************************************)
(* Bounds of the model.                                                    *)
(***************************************************************************)
staWindowSamples == 1        \* static_cast<int>(staWindowSec * sampleRate), scaled
ltaWindowSamples == 3        \* static_cast<int>(ltaWindowSec * sampleRate), scaled
PgaWindowSamples == 2        \* 3 * sampleRate, scaled
MIN_EVENT_DURATION == 2      \* MIN_EVENT_DURATION_SEC * 1000 ms, in ticks
MaxTime == 8                 \* samples taken in one run
MAX_QUEUE_SIZE == 3          \* 100 in the source, scaled
MaxAdds == 5                 \* addEvent calls in one run of the queue harness
JsonDocEntries == 2          \* entries a DynamicJsonDocument(8192) has room for, scaled
MaxPga == 500                \* largest peak acceleration classified, in milli-g

\* magnitudes a conditioned sample can have (milli-g): quiet, light, strong
Mags == {10, 40, 160}
\* magnitudes fed to the detector when it is driven on its own: these also
\* reach ratios inside the band between the two thresholds, a long-term
\* average too small to divide by, and an episode that outlasts the buffer
DetMags == {0, 10, 40, 60, 160, 500}
\* peak accelerations of the events handed to the queue harness
EventMags == {160}

(***************************************************************************)
(* Program constants.                                                      *)
(***************************************************************************)
STA_LTA_TRIGGER_THRESHOLD == 5
STA_LTA_DETRIGGER_THRESHOLD == 2
PGA_THRESHOLD_LIGHT == 30
PGA_THRESHOLD_MODERATE == 80
PGA_THRESHOLD_STRONG == 150
PGA_THRESHOLD_SEVERE == 250
PGA_THRESHOLD_VIOLENT == 450
DeviceId == "ESP32"

VARIABLES
    \* EarthquakeDetector
    sampleBuffer, triggered, triggerTime, currentEvent,
    \* EventQueue and its file
    queue, disk, mounted,
    \* main: flags, position, clock, local indicator
    pc, now, wifiConnected, mqttConnected, lastAlertLevel, localLevel,
    \* environment: Wi-Fi and broker reachable, mqttClient.connected()
    wifiUp, brokerUp, linkOpen,
    \* filterX/Y/Z and kalmanX/Y/Z, the LEDs and the buzzer, the MQTT client's
    \* subscriptions and the messages it has received
    filters, indicator, mqttIn,
    \* history of what the operations did
    fieldEpisode, lastTransition, lastSample, lastLoop, lastOp, published, acked,
    prevSent, dispatched, lastAlert, lastCommand,
    \* the server: DatabaseService.alerts, the notification channels of
    \* AlertService.config, the messages broadcast to the dashboard's socket
    \* and not yet delivered, and what the last calls did
    alerts, config, clientQueue, serverHist,
    \* the dashboard: its React state and the closure of its WebSocket effect
    dashboard, effect

detVars == <<sampleBuffer, triggered, triggerTime, currentEvent>>
queueVars == <<queue, disk, mounted>>
mainVars == <<pc, now, wifiConnected, mqttConnected, lastAlertLevel, localLevel>>
envVars == <<wifiUp, brokerUp, linkOpen>>
histVars == <<fieldEpisode, lastTransition, lastSample, lastLoop, lastOp, published,
              acked, prevSent>>
ioVars == <<filters, indicator, mqttIn>>
alertHist == <<dispatched, lastAlert, lastCommand>>
serverVars == <<alerts, config, clientQueue, serverHist>>
dashVars == <<dashboard, effect>>
vars == <<detVars, queueVars, mainVars, envVars, histVars, ioVars, alertHist,
          serverVars, dashVars>>

(***************************************************************************)
(* EarthquakeDetector                                                      *)
(***************************************************************************)
\* EarthquakeEvent(): value-initialised
EarthquakeEvent ==
    [magnitude |-> 0, pga |-> 0, pgv |-> 0, cav |-> 0, startTime |-> 0,
     duration |-> 0, alertLevel |-> "", confirmed |-> FALSE]

EventFields == {"magnitude", "pga", "cav", "startTime", "duration", "alertLevel", "confirmed"}

\* history: the episode (its trigger time) that last wrote each field; 0 = none
NoEpisode == [f \in EventFields |-> 0]

RECURSIVE SumSq(_, _, _)
\* sum of mag*mag over buf[lo..hi-1] (0-based, as the source's loops)
SumSq(buf, lo, hi) ==
    IF lo >= hi THEN 0 ELSE buf[lo + 1].mag * buf[lo + 1].mag + SumSq(buf, lo + 1, hi)

RECURSIVE SumMag(_, _, _)
SumMag(buf, lo, hi) ==
    IF lo >= hi THEN 0 ELSE buf[lo + 1].mag + SumMag(buf, lo + 1, hi)

RECURSIVE MaxMag(_, _, _)
MaxMag(buf, lo, hi) ==
    IF lo >= hi THEN 0
    ELSE LET m == MaxMag(buf, lo + 1, hi)
         IN  IF buf[lo + 1].mag > m THEN buf[lo + 1].mag ELSE m

\* an updateBuffers that drops the new sample when the buffer is full
updateBuffersDropNewest(buf, sample) ==
    LET pushed == Append(buf, sample)
        maxBufferSize == ltaWindowSamples + staWindowSamples
    IN  IF Len(pushed) > maxBufferSize THEN SubSeq(pushed, 1, maxBufferSize) ELSE pushed

\* EarthquakeDetector::updateBuffers
updateBuffers(buf, sample) ==
    LET pushed == Append(buf, sample)
        maxBufferSize == ltaWindowSamples + staWindowSamples
    IN  IF Len(pushed) > maxBufferSize THEN Tail(pushed) ELSE pushed

\* calculateSTA * staWindowSamples (the sum; the division is cross-multiplied)
staSum(buf) ==
    IF Len(buf) < staWindowSamples THEN 0
    ELSE SumSq(buf, Len(buf) - staWindowSamples, Len(buf))

\* number of samples calculateLTA divides by
ltaSamples == ltaWindowSamples - staWindowSamples

\* a long-term sum that runs over the whole LTA window, the STA window included
ltaSumOverlapping(buf) ==
    IF Len(buf) < ltaWindowSamples \/ ltaSamples <= 0 THEN 0
    ELSE SumSq(buf, Len(buf) - ltaWindowSamples, Len(buf))

\* calculateLTA * ltaSamples
ltaSum(buf) ==
    IF Len(buf) < ltaWindowSamples \/ ltaSamples <= 0 THEN 0
    ELSE SumSq(buf, Len(buf) - ltaWindowSamples, Len(buf) - staWindowSamples)

\* lta > 0.0001f, with lta in (m/s^2)^2: 0.0001 / 0.00981^2 = 1.039 milli-g^2
ltaUsable(buf) == ltaSum(buf) * 1000 > 1039 * ltaSamples

\* ratio > th and ratio < th for ratio = (lta > 0.0001f) ? sta / lta : 0.0f
ratioAbove(buf, th) ==
    ltaUsable(buf) /\ staSum(buf) * ltaSamples > th * ltaSum(buf) * staWindowSamples
ratioBelow(buf, th) ==
    IF ltaUsable(buf)
    THEN staSum(buf) * ltaSamples < th * ltaSum(buf) * staWindowSamples
    ELSE 0 < th

Min2(a, b) == IF a < b THEN a ELSE b

calculatePGA(buf) ==
    IF Len(buf) = 0 THEN 0
    ELSE LET windowSize == Min2(Len(buf), PgaWindowSamples)
         IN  MaxMag(buf, Len(buf) - windowSize, Len(buf))

\* first index (0-based) whose timestamp >= trigTime, 0 when there is none
RECURSIVE cavStartIdx(_, _, _)
cavStartIdx(buf, trigTime, i) ==
    IF i >= Len(buf) THEN 0
    ELSE IF buf[i + 1].timestamp >= trigTime THEN i
    ELSE cavStartIdx(buf, trigTime, i + 1)

calculateCAV(buf, trigTime) ==
    IF Len(buf) = 0 THEN 0
    ELSE LET startIdx == IF trigTime > 0 THEN cavStartIdx(buf, trigTime, 0) ELSE 0
         IN  SumMag(buf, startIdx, Len(buf))

\* Mw = clamp((log10(pga*981) - 2 + log10(distance + 5) + 0.003*distance) / 0.6, 0, 10)
\* at distance 10, in hundredths; tabulated for the PGA values of the model.
calculateMagnitudeEstimate(pga) ==
    CASE pga <= 0   -> 0
      [] pga = 10   -> 33
      [] pga = 40   -> 133
      [] pga = 60   -> 163
      [] pga = 160  -> 234
      [] pga = 500  -> 316
      [] OTHER      -> IF pga < 10 THEN 0 ELSE IF pga < 40 THEN 33
                       ELSE IF pga < 60 THEN 133 ELSE IF pga < 160 THEN 163
                       ELSE IF pga < 500 THEN 234 ELSE 316

\* the comparisons made exclusive: a value on a threshold gets the level below
determineAlertLevelExclusive(pga) ==
    IF pga > PGA_THRESHOLD_VIOLENT THEN "EXTREME"
    ELSE IF pga > PGA_THRESHOLD_SEVERE THEN "SEVERE"
    ELSE IF pga > PGA_THRESHOLD_STRONG THEN "STRONG"
    ELSE IF pga > PGA_THRESHOLD_MODERATE THEN "MODERATE"
    ELSE IF pga > PGA_THRESHOLD_LIGHT THEN "LIGHT"
    ELSE "NEGLIGIBLE"

determineAlertLevel(pga) ==
    IF pga >= PGA_THRESHOLD_VIOLENT THEN "EXTREME"
    ELSE IF pga >= PGA_THRESHOLD_SEVERE THEN "SEVERE"
    ELSE IF pga >= PGA_THRESHOLD_STRONG THEN "STRONG"
    ELSE IF pga >= PGA_THRESHOLD_MODERATE THEN "MODERATE"
    ELSE IF pga >= PGA_THRESHOLD_LIGHT THEN "LIGHT"
    ELSE "NEGLIGIBLE"

\* the detector's fields as one value, with the history of its last sample
Detector ==
    [sampleBuffer |-> sampleBuffer, triggered |-> triggered, triggerTime |-> triggerTime,
     currentEvent |-> currentEvent, fieldEpisode |-> fieldEpisode,
     lastTransition |-> lastTransition]

\* lines 35-41: IDLE -> TRIGGERED
onTrigger(d, ts) ==
    [d EXCEPT !.triggered = TRUE,
              !.triggerTime = ts,
              !.currentEvent = [@ EXCEPT !.startTime = ts, !.pga = 0, !.cav = 0],
              !.fieldEpisode = [@ EXCEPT !.startTime = ts, !.pga = ts, !.cav = ts],
              !.lastTransition = "trigger"]

\* lines 57-60: the episode is confirmed when it lasted long enough
confirmIfLongEnough(ev, fe, trigTime) ==
    IF ev.duration >= MIN_EVENT_DURATION
    THEN [ev |-> [ev EXCEPT !.confirmed = TRUE,
                            !.magnitude = calculateMagnitudeEstimate(ev.pga)],
          fe |-> [fe EXCEPT !.confirmed = trigTime, !.magnitude = trigTime]]
    ELSE [ev |-> ev, fe |-> fe]

\* the level taken from the latest sample instead of the episode's peak
whileTriggeredLatestLevel(d, ts) ==
    LET buf == d.sampleBuffer
        pga == calculatePGA(buf)
        ev1 == [d.currentEvent EXCEPT
                   !.pga = IF pga > @ THEN pga ELSE @,
                   !.cav = calculateCAV(buf, d.triggerTime)]
        ev2 == [ev1 EXCEPT !.alertLevel = determineAlertLevel(buf[Len(buf)].mag)]
        fe2 == [d.fieldEpisode EXCEPT !.pga = d.triggerTime, !.cav = d.triggerTime,
                                      !.alertLevel = d.triggerTime]
    IN  IF ratioBelow(buf, STA_LTA_DETRIGGER_THRESHOLD)
        THEN LET ev3 == [ev2 EXCEPT !.duration = ts - d.triggerTime]
                 fe3 == [fe2 EXCEPT !.duration = d.triggerTime]
                 c == confirmIfLongEnough(ev3, fe3, d.triggerTime)
             IN  [d EXCEPT !.currentEvent = c.ev, !.fieldEpisode = c.fe,
                           !.triggered = FALSE, !.lastTransition = "detrigger"]
        ELSE [d EXCEPT !.currentEvent = ev2, !.fieldEpisode = fe2]

\* one threshold for both directions: the episode ends as soon as the ratio
\* is below the trigger threshold
whileTriggeredOneThreshold(d, ts) ==
    LET buf == d.sampleBuffer
        pga == calculatePGA(buf)
        ev1 == [d.currentEvent EXCEPT
                   !.pga = IF pga > @ THEN pga ELSE @,
                   !.cav = calculateCAV(buf, d.triggerTime)]
        ev2 == [ev1 EXCEPT !.alertLevel = determineAlertLevel(ev1.pga)]
        fe2 == [d.fieldEpisode EXCEPT !.pga = d.triggerTime, !.cav = d.triggerTime,
                                      !.alertLevel = d.triggerTime]
    IN  IF ratioBelow(buf, STA_LTA_TRIGGER_THRESHOLD)
        THEN LET ev3 == [ev2 EXCEPT !.duration = ts - d.triggerTime]
                 fe3 == [fe2 EXCEPT !.duration = d.triggerTime]
                 c == confirmIfLongEnough(ev3, fe3, d.triggerTime)
             IN  [d EXCEPT !.currentEvent = c.ev, !.fieldEpisode = c.fe,
                           !.triggered = FALSE, !.lastTransition = "detrigger"]
        ELSE [d EXCEPT !.currentEvent = ev2, !.fieldEpisode = fe2]

\* lines 43-64: the work done on a sample while triggered
whileTriggered(d, ts) ==
    LET buf == d.sampleBuffer
        pga == calculatePGA(buf)
        ev1 == [d.currentEvent EXCEPT
                   !.pga = IF pga > @ THEN pga ELSE @,
                   !.cav = calculateCAV(buf, d.triggerTime)]
        ev2 == [ev1 EXCEPT !.alertLevel = determineAlertLevel(ev1.pga)]
        fe2 == [d.fieldEpisode EXCEPT !.pga = d.triggerTime, !.cav = d.triggerTime,
                                      !.alertLevel = d.triggerTime]
    IN  IF ratioBelow(buf, STA_LTA_DETRIGGER_THRESHOLD)
        THEN LET ev3 == [ev2 EXCEPT !.duration = ts - d.triggerTime]
                 fe3 == [fe2 EXCEPT !.duration = d.triggerTime]
                 c == confirmIfLongEnough(ev3, fe3, d.triggerTime)
             IN  [d EXCEPT !.currentEvent = c.ev, !.fieldEpisode = c.fe,
                           !.triggered = FALSE, !.lastTransition = "detrigger"]
        ELSE [d EXCEPT !.currentEvent = ev2, !.fieldEpisode = fe2]

\* a detector that triggers on the amplitude of the sample, not on the ratio
addSampleOnAmplitude(d, mag, ts) ==
    LET sample == [mag |-> mag, timestamp |-> ts]
        d0 == [d EXCEPT !.sampleBuffer = updateBuffers(d.sampleBuffer, sample),
                        !.lastTransition = "none"]
    IN  IF Len(d0.sampleBuffer) >= ltaWindowSamples
        THEN LET d1 == IF ~d0.triggered /\ mag >= PGA_THRESHOLD_STRONG
                       THEN onTrigger(d0, ts) ELSE d0
             IN  IF d1.triggered THEN whileTriggered(d1, ts) ELSE d1
        ELSE d0

\* EarthquakeDetector::addSample, the sample taken at time ts
addSample(d, mag, ts) ==
    LET sample == [mag |-> mag, timestamp |-> ts]
        d0 == [d EXCEPT !.sampleBuffer = updateBuffers(d.sampleBuffer, sample),
                        !.lastTransition = "none"]
    IN  IF Len(d0.sampleBuffer) >= ltaWindowSamples
        THEN LET d1 == IF ~d0.triggered
                          /\ ratioAbove(d0.sampleBuffer, STA_LTA_TRIGGER_THRESHOLD)
                       THEN onTrigger(d0, ts) ELSE d0
             IN  IF d1.triggered THEN whileTriggered(d1, ts) ELSE d1
        ELSE d0

\* a reset() that leaves the current event as it is
resetKeepsEvent(d) ==
    [d EXCEPT !.sampleBuffer = <<>>, !.triggered = FALSE, !.triggerTime = 0,
              !.lastTransition = "reset"]

\* EarthquakeDetector::reset
reset(d) ==
    [d EXCEPT !.sampleBuffer = <<>>, !.triggered = FALSE, !.triggerTime = 0,
              !.currentEvent = EarthquakeEvent, !.fieldEpisode = NoEpisode,
              !.lastTransition = "reset"]

(***************************************************************************)
(* EventQueue                                                              *)
(***************************************************************************)
\* the queue file: absent, holding a parseable record, or cut short by a
\* write that did not complete
NoFile == [kind |-> "absent", events |-> <<>>]
CorruptFile == [kind |-> "corrupt", events |-> <<>>]

QueuedEvent(event, deviceId) == [event |-> event, deviceId |-> deviceId, sent |-> FALSE]

\* lines 89-103: one element of the "events" array
toJson(qe) ==
    [deviceId |-> qe.deviceId, sent |-> qe.sent,
     event |-> [magnitude |-> qe.event.magnitude, pga |-> qe.event.pga,
                pgv |-> qe.event.pgv, cav |-> qe.event.cav,
                startTime |-> qe.event.startTime, duration |-> qe.event.duration,
                alertLevel |-> qe.event.alertLevel, confirmed |-> qe.event.confirmed]]

\* lines 134-150: one QueuedEvent read back from an element
fromJson(e) ==
    [deviceId |-> e.deviceId, sent |-> e.sent,
     event |-> [magnitude |-> e.event.magnitude, pga |-> e.event.pga,
                pgv |-> e.event.pgv, cav |-> e.event.cav,
                startTime |-> e.event.startTime, duration |-> e.event.duration,
                alertLevel |-> e.event.alertLevel, confirmed |-> e.event.confirmed]]

\* lines 86-103: the document is filled entry by entry; it has a fixed
\* capacity (8192 bytes: an entry takes 12 slots of 16 bytes and its two
\* strings), and an element that does not fit is not added
fillDocument(q) ==
    [i \in 1..Min2(Len(q), JsonDocEntries) |-> toJson(q[i])]

\* EventQueue::saveToDisk; canOpen is the outcome of SPIFFS.open(FILE_WRITE),
\* which truncates the file; writeOk tells whether serializeJson could write
\* the document out (its result is not looked at)
saveToDisk(q, dsk, canOpen, writeOk) ==
    IF ~canOpen THEN [ok |-> FALSE, disk |-> dsk]
    ELSE IF ~writeOk THEN [ok |-> TRUE, disk |-> CorruptFile]
    ELSE [ok |-> TRUE, disk |-> [kind |-> "valid", events |-> fillDocument(q)]]

\* a load that keeps the elements read before the parse error
loadFromDiskLenient(q, dsk, canOpen) ==
    IF dsk.kind = "absent" THEN [ok |-> TRUE, queue |-> q]
    ELSE IF ~canOpen THEN [ok |-> FALSE, queue |-> q]
    ELSE [ok |-> dsk.kind # "corrupt",
          queue |-> [i \in 1..Len(dsk.events) |-> fromJson(dsk.events[i])]]

\* EventQueue::loadFromDisk; canOpen is the outcome of SPIFFS.open(FILE_READ)
loadFromDisk(q, dsk, canOpen) ==
    IF dsk.kind = "absent" THEN [ok |-> TRUE, queue |-> q]
    ELSE IF ~canOpen THEN [ok |-> FALSE, queue |-> q]
    ELSE IF dsk.kind = "corrupt" THEN [ok |-> FALSE, queue |-> q]
    ELSE [ok |-> TRUE,
          queue |-> [i \in 1..Len(dsk.events) |-> fromJson(dsk.events[i])]]

\* EventQueue::init; mountOk is the outcome of SPIFFS.begin(true)
init(q, dsk, mountOk, canOpen) ==
    IF ~mountOk THEN [ok |-> FALSE, queue |-> q]
    ELSE loadFromDisk(q, dsk, canOpen)

\* push_back without the erase
pushUnbounded(q, qe) == Append(q, qe)

\* a full queue that refuses the new entry instead of erasing the oldest
pushDropNewest(q, qe) ==
    IF Len(q) >= MAX_QUEUE_SIZE THEN q ELSE Append(q, qe)

\* lines 21-25: push_back, then erase the oldest when over capacity
pushBounded(q, qe) ==
    LET pushed == Append(q, qe)
    IN  IF Len(pushed) > MAX_QUEUE_SIZE THEN Tail(pushed) ELSE pushed

\* EventQueue::addEvent
addEvent(q, dsk, event, deviceId, canOpen, writeOk) ==
    LET q1 == pushBounded(q, QueuedEvent(event, deviceId))
        saved == saveToDisk(q1, dsk, canOpen, writeOk)
    IN  [ok |-> saved.ok, queue |-> q1, disk |-> saved.disk,
         evicted |-> Len(q) + 1 > Len(q1)]

RECURSIVE CountUnsent(_, _)
\* unsent entries among q[1..n]
CountUnsent(q, n) ==
    IF n = 0 THEN 0 ELSE (IF q[n].sent THEN 0 ELSE 1) + CountUnsent(q, n - 1)

getQueueSize(q) == Len(q)
getUnsentCount(q) == CountUnsent(q, Len(q))

\* what a drain has done so far: the queue, the calls of the send function,
\* each entry handed to it (with the unsent entries that preceded it at that
\* moment) and the events it sent
DrainStart(q) == [queue |-> q, calls |-> 0, handed |-> <<>>, sentNow |-> <<>>]

Handed(r, i) == [index |-> i, startTime |-> r.queue[i].event.startTime,
                 earlierUnsent |-> CountUnsent(r.queue, i - 1)]

RECURSIVE drainFrom(_, _, _)
\* lines 33-42, from entry i on; outcomes[n] is the result of the n-th call
drainFrom(r, i, outcomes) ==
    IF i > Len(r.queue) THEN r
    ELSE IF ~r.queue[i].sent
         THEN LET called == [r EXCEPT !.calls = @ + 1,
                                      !.handed = Append(@, Handed(r, i))]
              IN  IF outcomes[called.calls]
                  THEN drainFrom([called EXCEPT !.queue[i].sent = TRUE,
                                                !.sentNow = Append(@, r.queue[i].event)],
                                 i + 1, outcomes)
                  ELSE called
         ELSE drainFrom(r, i + 1, outcomes)

RECURSIVE drainSkipping(_, _, _)
\* the loop with the break left out: a failed entry is skipped
drainSkipping(r, i, outcomes) ==
    IF i > Len(r.queue) THEN r
    ELSE IF ~r.queue[i].sent
         THEN LET called == [r EXCEPT !.calls = @ + 1,
                                      !.handed = Append(@, Handed(r, i))]
              IN  IF outcomes[called.calls]
                  THEN drainSkipping([called EXCEPT !.queue[i].sent = TRUE,
                                                    !.sentNow = Append(@, r.queue[i].event)],
                                     i + 1, outcomes)
                  ELSE drainSkipping(called, i + 1, outcomes)
         ELSE drainSkipping(r, i + 1, outcomes)

processQueueSkipping(q, dsk, outcomes, canOpen, writeOk) ==
    LET r == drainSkipping(DrainStart(q), 1, outcomes)
        anyProcessed == Len(r.sentNow) > 0
        saved == IF anyProcessed THEN saveToDisk(r.queue, dsk, canOpen, writeOk)
                 ELSE [ok |-> TRUE, disk |-> dsk]
    IN  [ok |-> anyProcessed, queue |-> r.queue, disk |-> saved.disk,
         calls |-> r.calls, handed |-> r.handed, sentNow |-> r.sentNow]

RECURSIVE drainResending(_, _, _)
\* the loop without the test of the sent flag
drainResending(r, i, outcomes) ==
    IF i > Len(r.queue) \/ r.calls >= Len(outcomes) THEN r
    ELSE LET called == [r EXCEPT !.calls = @ + 1,
                                 !.handed = Append(@, Handed(r, i))]
         IN  IF outcomes[called.calls]
             THEN drainResending([called EXCEPT !.queue[i].sent = TRUE,
                                                !.sentNow = Append(@, r.queue[i].event)],
                                 i + 1, outcomes)
             ELSE called

processQueueResending(q, dsk, outcomes, canOpen, writeOk) ==
    LET r == drainResending(DrainStart(q), 1, outcomes)
        anyProcessed == Len(r.sentNow) > 0
        saved == IF anyProcessed THEN saveToDisk(r.queue, dsk, canOpen, writeOk)
                 ELSE [ok |-> TRUE, disk |-> dsk]
    IN  [ok |-> anyProcessed, queue |-> r.queue, disk |-> saved.disk,
         calls |-> r.calls, handed |-> r.handed, sentNow |-> r.sentNow]

\* EventQueue::processQueue
processQueue(q, dsk, outcomes, canOpen, writeOk) ==
    LET r == drainFrom(DrainStart(q), 1, outcomes)
        anyProcessed == Len(r.sentNow) > 0
        saved == IF anyProcessed THEN saveToDisk(r.queue, dsk, canOpen, writeOk)
                 ELSE [ok |-> TRUE, disk |-> dsk]
    IN  [ok |-> anyProcessed, queue |-> r.queue, disk |-> saved.disk,
         calls |-> r.calls, handed |-> r.handed, sentNow |-> r.sentNow]

\* remove_if without the erase: the entries kept move to the front and the
\* queue keeps its length
removeSentWithoutErase(q) ==
    LET kept == SelectSeq(q, LAMBDA e : ~e.sent)
    IN  kept \o SubSeq(q, Len(kept) + 1, Len(q))

\* lines 66-70: erase(remove_if(sent))
removeSent(q) == SelectSeq(q, LAMBDA e : ~e.sent)

\* EventQueue::clearSentEvents
clearSentEvents(q, dsk, canOpen, writeOk) ==
    LET q1 == removeSent(q)
    IN  [queue |-> q1, disk |-> saveToDisk(q1, dsk, canOpen, writeOk).disk]

\* EventQueue::clearAll
clearAll(q, dsk, canOpen, writeOk) ==
    [queue |-> <<>>, disk |-> saveToDisk(<<>>, dsk, canOpen, writeOk).disk]

(***************************************************************************)
(* State after construction, and the history variables.                    *)
(***************************************************************************)
\* index of the first call on which the send function fails
FirstFailure(outcomes) ==
    IF \A n \in DOMAIN outcomes : outcomes[n] THEN Len(outcomes) + 1
    ELSE CHOOSE n \in DOMAIN outcomes :
             ~outcomes[n] /\ \A m \in 1..(n - 1) : outcomes[m]

\* the scripted input: one STA window of quiet, a burst twice as long at a
\* strong level, then quiet again
ScenarioQuiet == staWindowSamples
ScenarioBurst == 2 * staWindowSamples
ScenarioSample(t) ==
    IF t > ScenarioQuiet /\ t <= ScenarioQuiet + ScenarioBurst THEN 160 ELSE 10

\* history of the samples: what the last addSample call saw (the ratio of
\* lines 31-33 against both thresholds, the state it found), whether the ratio
\* has ever exceeded the trigger threshold, and whether the samples so far are
\* those of the scripted input; aborted is the trigger time of the episode
\* that the last reset() cut short (0: none)
NoSample ==
    [fed |-> FALSE, mag |-> 0, computed |-> FALSE, above |-> FALSE, below |-> FALSE,
     wasTriggered |-> FALSE, prevLevel |-> "", everAbove |-> FALSE,
     onScenario |-> TRUE, aborted |-> 0]

sampleSeen(d, prev, mag, ts) ==
    LET buf == updateBuffers(d.sampleBuffer, [mag |-> mag, timestamp |-> ts])
        computed == Len(buf) >= ltaWindowSamples
        above == computed /\ ratioAbove(buf, STA_LTA_TRIGGER_THRESHOLD)
    IN  [fed |-> TRUE, mag |-> mag, computed |-> computed, above |-> above,
         below |-> computed /\ ratioBelow(buf, STA_LTA_DETRIGGER_THRESHOLD),
         wasTriggered |-> d.triggered, prevLevel |-> d.currentEvent.alertLevel,
         everAbove |-> prev.everAbove \/ above,
         onScenario |-> prev.onScenario /\ mag = ScenarioSample(ts),
         aborted |-> prev.aborted]

(***************************************************************************)
(* ButterworthFilter and KalmanFilter.  The state of a filter (x[], y[];    *)
(* P, K, X) is a function of the inputs it has absorbed since it was last   *)
(* in its zero state; it is kept as the number of those inputs.             *)
(***************************************************************************)
\* the state the constructors leave: x[i] = y[i] = 0; P = 1, K = 0, X = 0
FiltersConstructed == [butterworth |-> 0, kalman |-> 0]

\* ButterworthFilter::process on filterX, filterY and filterZ
process(f) == [f EXCEPT !.butterworth = @ + 1]

\* KalmanFilter::update on kalmanX, kalmanY and kalmanZ
update(f) == [f EXCEPT !.kalman = @ + 1]

\* ButterworthFilter::reset and KalmanFilter::reset; called by the
\* ButterworthFilter constructor and by nothing else
ButterworthReset(f) == [f EXCEPT !.butterworth = 0]
KalmanReset(f) == [f EXCEPT !.kalman = 0]

(***************************************************************************)
(* LocalAlertSystem: three LEDs and the sound the last call played.         *)
(***************************************************************************)
\* the pins before init() has driven them
IndicatorOff == [red |-> FALSE, yellow |-> FALSE, green |-> FALSE, sound |-> "none"]

\* LocalAlertSystem::init
localAlertInit(ind) == [ind EXCEPT !.green = TRUE, !.yellow = FALSE, !.red = FALSE]

\* LocalAlertSystem::soundAlarm: one tone, then silence
soundAlarm(ind) == [ind EXCEPT !.sound = "tone"]

\* LocalAlertSystem::sirenPattern: three sweeps up and down, then silence
sirenPattern(ind) == [ind EXCEPT !.sound = "siren"]

\* setAlertLevel without lines 26-28
setAlertLevelKeepsLeds(ind, level) ==
    LET off == [ind EXCEPT !.sound = "none"]
    IN  IF level \in {"EXTREME", "SEVERE", "STRONG"}
        THEN sirenPattern([off EXCEPT !.red = TRUE])
        ELSE IF level = "MODERATE" THEN soundAlarm([off EXCEPT !.yellow = TRUE])
        ELSE IF level = "LIGHT" THEN soundAlarm([off EXCEPT !.yellow = TRUE])
        ELSE [off EXCEPT !.green = TRUE]

\* LocalAlertSystem::setAlertLevel
setAlertLevel(ind, level) ==
    LET off == [ind EXCEPT !.red = FALSE, !.yellow = FALSE, !.green = FALSE,
                           !.sound = "none"]
    IN  IF level \in {"EXTREME", "SEVERE", "STRONG"}
        THEN sirenPattern([off EXCEPT !.red = TRUE])
        ELSE IF level = "MODERATE" THEN soundAlarm([off EXCEPT !.yellow = TRUE])
        ELSE IF level = "LIGHT" THEN soundAlarm([off EXCEPT !.yellow = TRUE])
        ELSE [off EXCEPT !.green = TRUE]

(***************************************************************************)
(* Commands: the server's route, the broker, PubSubClient and mqttCallback. *)
(***************************************************************************)
\* the topic earthquake/command/<deviceId> of the route
CommandTopic(id) == [name |-> "earthquake/command", device |-> id]

\* MQTTService.publish sends JSON.stringify({ command }): the command
\* wrapped in an object (written here without the quotation marks)
stringify(command) ==
    CASE command = "reset" -> "{command:reset}"
      [] command = "status" -> "{command:status}"

\* the client after construction: setup() installs the callback (line 475),
\* and no line of the firmware calls subscribe
MqttConstructed == [subscriptions |-> {}, inbox |-> <<>>]

\* the broker forwards a message to a connected client that subscribed to
\* its topic
brokerForward(m, link, topic, payload) ==
    IF link /\ topic \in m.subscriptions
    THEN [m EXCEPT !.inbox = Append(@, payload)]
    ELSE m

\* mqttCallback: message is the payload as text; link is
\* mqttAlert->isConnected() in sendStatus
mqttCallback(message, d, link) ==
    IF message = "reset" THEN [detector |-> reset(d), recognized |-> "reset",
                                alive |-> FALSE]
    ELSE IF message = "status" THEN [detector |-> d, recognized |-> "status",
                                      alive |-> link]
    ELSE [detector |-> d, recognized |-> "none", alive |-> FALSE]

\* mqttAlert.loop(): PubSubClient::loop hands one received message to the
\* callback when the client is connected
mqttLoop(m, d, link) ==
    IF link /\ m.inbox # <<>>
    THEN LET r == mqttCallback(Head(m.inbox), d, link)
         IN  [mqttIn |-> [m EXCEPT !.inbox = Tail(@)], detector |-> r.detector,
              heard |-> TRUE, recognized |-> r.recognized, alive |-> r.alive]
    ELSE [mqttIn |-> m, detector |-> d, heard |-> FALSE, recognized |-> "none",
          alive |-> FALSE]

\* history of the commands: the last one the server published, whether the
\* broker forwarded it, what mqttCallback made of it, whether a status
\* message answered it
NoCommand ==
    [sent |-> "none", forwarded |-> FALSE, recognized |-> "none", alive |-> FALSE]

(***************************************************************************)
(* WebhookAlertSystem.  A channel is "unset" (its credentials are empty),   *)
(* or its HTTP request fails or succeeds.                                   *)
(***************************************************************************)
Hooks == {"pushover", "telegram", "discord"}
HookStates == {"unset", "fail", "ok"}

\* sendPushover, sendTelegram, sendDiscord: no request without credentials;
\* the result is that of the request
sendPushover(event, hook) ==
    [channel |-> "pushover", posted |-> hook # "unset", ok |-> hook = "ok"]
sendTelegram(event, hook) ==
    [channel |-> "telegram", posted |-> hook # "unset", ok |-> hook = "ok"]
sendDiscord(event, hook) ==
    [channel |-> "discord", posted |-> hook # "unset", ok |-> hook = "ok"]

\* a fan-out that gives up at the first channel that fails
broadcastAlertStopOnFailure(event, hooks) ==
    LET p == sendPushover(event, hooks.pushover)
        t == sendTelegram(event, hooks.telegram)
    IN  IF ~p.ok THEN <<p>>
        ELSE IF ~t.ok THEN <<p, t>>
        ELSE <<p, t, sendDiscord(event, hooks.discord)>>

\* WebhookAlertSystem::broadcastAlert: the calls it makes, in order
broadcastAlert(event, hooks) ==
    <<sendPushover(event, hooks.pushover), sendTelegram(event, hooks.telegram),
      sendDiscord(event, hooks.discord)>>

\* the channels as the firmware is configured and the requests succeeding
HooksOk == [h \in Hooks |-> "ok"]

\* history of the last sendAlert call made on its own
NoAlert ==
    [called |-> FALSE, channel |-> "none", sinks |-> {}, link |-> FALSE,
     level |-> "", prevLevel |-> "", hooks |-> HooksOk, localSet |-> FALSE,
     publishTried |-> FALSE, publishOk |-> FALSE, webhook |-> <<>>]

NoOp ==
    [op |-> "none", ok |-> TRUE, evicted |-> FALSE, pre |-> <<>>, firstFailure |-> 0,
     calls |-> 0, handed |-> <<>>, sentNow |-> <<>>, prevSent |-> 0,
     mountOk |-> TRUE, canOpen |-> TRUE, writeOk |-> TRUE,
     fileKind |-> "absent", sensorOk |-> TRUE]

NoLoop ==
    [sampled |-> FALSE, confirmedNow |-> FALSE, handled |-> FALSE,
     event |-> EarthquakeEvent, origin |-> NoEpisode, channel |-> "none",
     enqueued |-> FALSE, netAtHandling |-> FALSE, publishTried |-> FALSE,
     publishOk |-> FALSE, webhookTried |-> FALSE, drained |-> FALSE]

\* no call has been made on the server yet
NoServerHistory ==
    [handled |-> 0, op |-> "none",
     alert |-> [device_id |-> "", timestamp |-> 0, alert_level |-> "",
                confirmed |-> FALSE],
     shouldNotify |-> FALSE, attempted |-> {}, failed |-> {}, stored |-> FALSE,
     limit |-> 0, result |-> <<>>]

\* Dashboard.tsx 14-18: the state of the component before its effects run
DashboardMounted ==
    [alerts |-> <<>>, connected |-> FALSE, error |-> "null", fetched |-> FALSE]

\* Dashboard.tsx 55-56: ws = null and reconnectTimeout unset; the effect has
\* not run yet
EffectNotRun ==
    [ws |-> "null", reconnectTimeout |-> "unset", cleanedUp |-> FALSE,
     opened |-> 0, openedAfterCleanup |-> 0]

Constructed ==
    /\ sampleBuffer = <<>> /\ triggered = FALSE /\ triggerTime = 0
    /\ currentEvent = EarthquakeEvent
    /\ queue = <<>>
    /\ now = 0 /\ wifiConnected = FALSE /\ mqttConnected = FALSE
    /\ lastAlertLevel = "" /\ localLevel = ""
    /\ linkOpen = FALSE
    /\ fieldEpisode = NoEpisode /\ lastTransition = "none"
    /\ lastSample = NoSample
    /\ lastLoop = NoLoop /\ lastOp = NoOp
    /\ published = <<>> /\ acked = {} /\ prevSent = 0
    /\ filters = FiltersConstructed /\ indicator = IndicatorOff
    /\ mqttIn = MqttConstructed
    /\ dispatched = <<>> /\ lastAlert = NoAlert /\ lastCommand = NoCommand
    /\ alerts = <<>> /\ clientQueue = <<>> /\ serverHist = NoServerHistory
    /\ dashboard = DashboardMounted /\ effect = EffectNotRun

SetDetector(d) ==
    /\ sampleBuffer' = d.sampleBuffer /\ triggered' = d.triggered
    /\ triggerTime' = d.triggerTime /\ currentEvent' = d.currentEvent
    /\ fieldEpisode' = d.fieldEpisode /\ lastTransition' = d.lastTransition

detHist == <<fieldEpisode, lastTransition, lastSample>>
otherHist == <<lastLoop, lastOp, published, acked, prevSent>>

(***************************************************************************)
(* The detector driven directly through its public interface.              *)
(***************************************************************************)
DetInit ==
    /\ Constructed /\ config = {} /\ pc = "detector" /\ mounted = FALSE /\ disk = NoFile
    /\ wifiUp = FALSE /\ brokerUp = FALSE

DetAddSample ==
    /\ pc = "detector" /\ now < MaxTime
    /\ \E mag \in DetMags :
          /\ SetDetector(addSample(Detector, mag, now + 1))
          /\ lastSample' = sampleSeen(Detector, lastSample, mag, now + 1)
    /\ now' = now + 1
    /\ UNCHANGED <<serverVars, dashVars,
                   ioVars, alertHist,
                   queueVars, pc, wifiConnected, mqttConnected, lastAlertLevel,
                   localLevel, envVars, otherHist>>

DetReset ==
    /\ pc = "detector" /\ Len(sampleBuffer) > 0
    /\ SetDetector(reset(Detector))
    /\ lastSample' = [lastSample EXCEPT !.fed = FALSE, !.onScenario = FALSE,
                                        !.aborted = IF triggered THEN triggerTime
                                                    ELSE @]
    /\ UNCHANGED <<serverVars, dashVars,
                   ioVars, alertHist, queueVars, mainVars, envVars, otherHist>>

DetNext == DetAddSample \/ DetReset

DetectorSpec == DetInit /\ [][DetNext]_vars

(***************************************************************************)
(* determineAlertLevel called on its own, for every peak acceleration.     *)
(***************************************************************************)
ClassifyInit ==
    /\ Constructed /\ config = {} /\ pc = "classify" /\ mounted = FALSE /\ disk = NoFile
    /\ wifiUp = FALSE /\ brokerUp = FALSE

\* currentEvent.alertLevel = determineAlertLevel(currentEvent.pga), line 52
Classify ==
    /\ pc = "classify"
    /\ \E pga \in 0..MaxPga :
          currentEvent' = [currentEvent EXCEPT !.pga = pga,
                                               !.alertLevel = determineAlertLevel(pga)]
    /\ UNCHANGED <<serverVars, dashVars,
                   ioVars, alertHist,
                   sampleBuffer, triggered, triggerTime, queueVars, mainVars, envVars,
                   histVars>>

ClassifySpec == ClassifyInit /\ [][Classify]_vars

(***************************************************************************)
(* The event queue driven directly through its public interface.           *)
(***************************************************************************)
\* results of the calls of a send function that is called at most m times
Outcomes(m) == [1..m -> BOOLEAN]

RECURSIVE UnsentStarts(_, _)
\* start times of the unsent entries among q[1..n]
UnsentStarts(q, n) ==
    IF n = 0 THEN {}
    ELSE (IF q[n].sent THEN {} ELSE {q[n].event.startTime}) \cup UnsentStarts(q, n - 1)

LastStart(evs, dflt) == IF Len(evs) = 0 THEN dflt ELSE evs[Len(evs)].startTime

\* a confirmed event as the detector hands it over, started at time ts
SomeEvent(mag, ts) ==
    [EarthquakeEvent EXCEPT !.startTime = ts, !.duration = MIN_EVENT_DURATION,
                            !.pga = mag, !.cav = mag,
                            !.alertLevel = determineAlertLevel(mag),
                            !.magnitude = calculateMagnitudeEstimate(mag),
                            !.confirmed = TRUE]

QueueInit ==
    /\ Constructed /\ config = {} /\ pc = "queue" /\ mounted = TRUE /\ disk = NoFile
    /\ wifiUp = FALSE /\ brokerUp = FALSE

QAddEvent ==
    /\ pc = "queue" /\ now < MaxAdds
    /\ \E mag \in EventMags, canOpen \in BOOLEAN, writeOk \in BOOLEAN :
          LET ev == SomeEvent(mag, now + 1)
              r == addEvent(queue, disk, ev, DeviceId, mounted /\ canOpen, writeOk)
          IN  /\ queue' = r.queue /\ disk' = r.disk
              /\ acked' = (acked \cup (IF r.ok THEN {ev.startTime} ELSE {}))
                              \cap UnsentStarts(r.queue, Len(r.queue))
              /\ lastOp' = [NoOp EXCEPT !.op = "addEvent", !.ok = r.ok,
                                        !.evicted = r.evicted, !.pre = queue,
                                        !.canOpen = mounted /\ canOpen,
                                        !.writeOk = mounted /\ canOpen /\ writeOk]
    /\ now' = now + 1
    /\ UNCHANGED <<serverVars, dashVars,
                   ioVars, alertHist,
                   detVars, mounted, pc, wifiConnected, mqttConnected, lastAlertLevel,
                   localLevel, envVars, detHist, lastLoop, published, prevSent>>

QProcessQueue ==
    /\ pc = "queue" /\ Len(queue) > 0
    /\ \E outcomes \in Outcomes(getUnsentCount(queue)), canOpen \in BOOLEAN,
          writeOk \in BOOLEAN :
          LET r == processQueue(queue, disk, outcomes, mounted /\ canOpen, writeOk)
          IN  /\ queue' = r.queue /\ disk' = r.disk
              /\ acked' = acked \cap UnsentStarts(r.queue, Len(r.queue))
              /\ prevSent' = LastStart(r.sentNow, prevSent)
              /\ lastOp' = [NoOp EXCEPT !.op = "processQueue", !.ok = r.ok,
                                        !.pre = queue,
                                        !.firstFailure = FirstFailure(outcomes),
                                        !.calls = r.calls, !.handed = r.handed,
                                        !.sentNow = r.sentNow, !.prevSent = prevSent,
                                        !.canOpen = mounted /\ canOpen,
                                        !.writeOk = mounted /\ canOpen /\ writeOk]
    /\ UNCHANGED <<serverVars, dashVars,
                   ioVars, alertHist,
                   detVars, mounted, mainVars, envVars, detHist, lastLoop, published>>

QClearSentEvents ==
    /\ pc = "queue" /\ Len(queue) > 0
    /\ \E canOpen \in BOOLEAN, writeOk \in BOOLEAN :
          LET r == clearSentEvents(queue, disk, mounted /\ canOpen, writeOk)
          IN  /\ queue' = r.queue /\ disk' = r.disk
              /\ lastOp' = [NoOp EXCEPT !.op = "clearSentEvents", !.pre = queue,
                                        !.canOpen = mounted /\ canOpen,
                                        !.writeOk = mounted /\ canOpen /\ writeOk]
    /\ UNCHANGED <<serverVars, dashVars,
                   ioVars, alertHist,
                   detVars, mounted, mainVars, envVars, detHist, lastLoop, published,
                   acked, prevSent>>

QueueNext == QAddEvent \/ QProcessQueue \/ QClearSentEvents

QueueSpec == QueueInit /\ [][QueueNext]_vars

(***************************************************************************)
(* The event queue across power cycles.                                    *)
(***************************************************************************)
CrashInit ==
    /\ Constructed /\ config = {} /\ pc = "off" /\ mounted = FALSE /\ disk = NoFile
    /\ wifiUp = FALSE /\ brokerUp = FALSE

\* power-up: the EventQueue is constructed empty and init() is called
Boot ==
    /\ pc = "off"
    /\ \E mountOk \in BOOLEAN, canOpen \in BOOLEAN :
          LET r == init(<<>>, disk, mountOk, canOpen)
          IN  /\ queue' = r.queue /\ mounted' = mountOk
              /\ lastOp' = [NoOp EXCEPT !.op = "init", !.ok = r.ok,
                                        !.mountOk = mountOk, !.canOpen = canOpen,
                                        !.fileKind = disk.kind]
    /\ pc' = "queue"
    /\ UNCHANGED <<serverVars, dashVars,
                   ioVars, alertHist,
                   detVars, disk, now, wifiConnected, mqttConnected, lastAlertLevel,
                   localLevel, envVars, detHist, lastLoop, published, acked, prevSent>>

QClearAll ==
    /\ pc = "queue" /\ Len(queue) > 0
    /\ \E canOpen \in BOOLEAN, writeOk \in BOOLEAN :
          LET r == clearAll(queue, disk, mounted /\ canOpen, writeOk)
          IN  /\ queue' = r.queue /\ disk' = r.disk
              /\ lastOp' = [NoOp EXCEPT !.op = "clearAll", !.pre = queue,
                                        !.canOpen = mounted /\ canOpen,
                                        !.writeOk = mounted /\ canOpen /\ writeOk]
    /\ acked' = {}
    /\ UNCHANGED <<serverVars, dashVars,
                   ioVars, alertHist,
                   detVars, mounted, mainVars, envVars, detHist, lastLoop, published,
                   prevSent>>

\* power is lost between two operations: memory is gone, the file is as it was
PowerLoss ==
    /\ pc = "queue"
    /\ queue' = <<>> /\ mounted' = FALSE /\ pc' = "off"
    /\ lastOp' = [NoOp EXCEPT !.op = "powerLoss"]
    /\ UNCHANGED <<serverVars, dashVars,
                   ioVars, alertHist,
                   detVars, disk, now, wifiConnected, mqttConnected, lastAlertLevel,
                   localLevel, envVars, detHist, lastLoop, published, acked, prevSent>>

\* power is lost inside saveToDisk (lines 80-106) of an addEvent call: the
\* file was opened with FILE_WRITE, which truncates it, and the record was
\* not written out in full; the call never returned
AddEventInterrupted ==
    /\ pc = "queue" /\ mounted
    /\ disk' = CorruptFile
    /\ queue' = <<>> /\ mounted' = FALSE /\ pc' = "off"
    /\ lastOp' = [NoOp EXCEPT !.op = "powerLossInWrite"]
    /\ UNCHANGED <<serverVars, dashVars,
                   ioVars, alertHist,
                   detVars, now, wifiConnected, mqttConnected, lastAlertLevel,
                   localLevel, envVars, detHist, lastLoop, published, acked, prevSent>>

CrashNext ==
    \/ Boot \/ QAddEvent \/ QProcessQueue \/ QClearSentEvents \/ QClearAll
    \/ PowerLoss \/ AddEventInterrupted

CrashSpec == CrashInit /\ [][CrashNext]_vars

(***************************************************************************)
(* Alert dispatch and the firmware: setup(), loop() and the network.       *)
(***************************************************************************)
\* MQTTAlertSystem::connect as connectMQTT uses it (wifiConnected holds):
\* already connected, or the broker is reached now
connectMQTT(link, wUp, bUp) ==
    LET connected == link \/ (wUp /\ bUp)
    IN  [linkOpen |-> connected, mqttConnected |-> connected]

\* loop() lines 494-499
loopConnect(wifiFlag, mqttFlag, link, wUp, bUp) ==
    IF wifiFlag /\ ~link THEN connectMQTT(link, wUp, bUp)
    ELSE [linkOpen |-> link, mqttConnected |-> mqttFlag]

\* enum AlertChannel, and the sinks AlertManager::init can be given
AlertChannel == {"LOCAL", "MQTT", "PUSHOVER", "TELEGRAM", "DISCORD", "ALL"}
Sinks == {"local", "mqtt", "webhook"}

\* sendAlert publishing without asking isConnected()
sendAlertUnchecked(event, channel, sinks, link, pubOk, hooks) ==
    [localSet |-> channel \in {"ALL", "LOCAL"} /\ "local" \in sinks,
     publishTried |-> channel \in {"ALL", "MQTT"} /\ "mqtt" \in sinks,
     publishOk |-> channel \in {"ALL", "MQTT"} /\ "mqtt" \in sinks /\ link /\ pubOk,
     webhook |-> IF channel = "ALL" /\ "webhook" \in sinks
                 THEN broadcastAlert(event, hooks) ELSE <<>>]

\* AlertManager::sendAlert: which sinks are driven.  sinks are the non-null
\* pointers, link is mqttAlert->isConnected(), pubOk the result of
\* mqttClient.publish, hooks the state of the webhook channels; localSet
\* says that setAlertLevel(event.alertLevel) is called
sendAlert(event, channel, sinks, link, pubOk, hooks) ==
    [localSet |-> channel \in {"ALL", "LOCAL"} /\ "local" \in sinks,
     publishTried |-> channel \in {"ALL", "MQTT"} /\ "mqtt" \in sinks /\ link,
     publishOk |-> channel \in {"ALL", "MQTT"} /\ "mqtt" \in sinks /\ link /\ pubOk,
     webhook |-> IF channel = "ALL" /\ "webhook" \in sinks
                 THEN broadcastAlert(event, hooks) ELSE <<>>]

\* loop() line 531: the condition under which the event is handed on
shouldDispatch(d) ==
    d.triggered /\ d.currentEvent.confirmed /\ d.currentEvent.duration > 0

\* a loop() without line 543
afterDispatchKeeps(d) == d

\* loop() line 543: detector.reset() once the event is handed on
afterDispatch(d) == reset(d)

\* loop() line 536: which branch handles the event
onlinePath(wifiFlag, mqttFlag) == wifiFlag /\ mqttFlag

\* loop() line 548
shouldDrain(wifiFlag, mqttFlag, q) == wifiFlag /\ mqttFlag /\ getUnsentCount(q) > 0

Init ==
    /\ Constructed /\ config = {} /\ pc = "boot" /\ mounted = FALSE /\ disk = NoFile
    /\ wifiUp \in BOOLEAN /\ brokerUp \in BOOLEAN

\* setup().  alertManager.init comes after connectMQTT, so the status message
\* of connectMQTT finds no sink and is skipped.
Setup ==
    /\ pc = "boot"
    /\ \E sensorOk \in BOOLEAN, mountOk \in BOOLEAN, canOpen \in BOOLEAN :
          LET q == init(queue, disk, mountOk, canOpen)
              \* the file is opened only when mounted and present
              opened == mountOk /\ disk.kind # "absent"
          IN  /\ queue' = q.queue /\ mounted' = mountOk
              /\ lastOp' = [NoOp EXCEPT !.op = "init", !.ok = q.ok,
                                        !.mountOk = mountOk,
                                        !.canOpen = (opened => canOpen),
                                        !.fileKind = disk.kind, !.sensorOk = sensorOk]
              /\ IF ~sensorOk
                 THEN /\ pc' = "sensorError"
                      /\ UNCHANGED <<detVars, detHist, wifiConnected, mqttConnected,
                                     linkOpen, localLevel>>
                      /\ indicator' = localAlertInit(indicator)
                 ELSE LET wifi == wifiUp
                          m == IF wifi THEN connectMQTT(FALSE, wifiUp, brokerUp)
                               ELSE [linkOpen |-> FALSE, mqttConnected |-> FALSE]
                      IN  /\ pc' = "running"
                          /\ SetDetector(reset(Detector))
                          /\ UNCHANGED lastSample
                          /\ wifiConnected' = wifi
                          /\ mqttConnected' = m.mqttConnected
                          /\ linkOpen' = m.linkOpen
                          /\ localLevel' = "NEGLIGIBLE"
                          /\ indicator' = setAlertLevel(localAlertInit(indicator),
                                                        "NEGLIGIBLE")
    /\ UNCHANGED <<serverVars, dashVars,
                   filters, mqttIn, alertHist,
                   disk, now, lastAlertLevel, wifiUp, brokerUp, lastLoop, published,
                   acked, prevSent>>

\* the network comes or goes; a lost network closes the broker connection
EnvChange ==
    /\ pc = "running"
    /\ \E w \in BOOLEAN, b \in BOOLEAN :
          /\ <<w, b>> # <<wifiUp, brokerUp>>
          /\ wifiUp' = w /\ brokerUp' = b
          /\ linkOpen' = (linkOpen /\ w /\ b)
    /\ UNCHANGED <<serverVars, dashVars,
                   ioVars, alertHist, detVars, queueVars, mainVars, histVars>>

\* one pass of loop().  sampleDue: the sampling interval has elapsed; mag: the
\* conditioned sample; dropMid: the broker connection is lost between the check
\* of line 495 and the dispatch; pubOk: result of mqttClient.publish in
\* sendAlert; outcomes: its results in the drain.  SPIFFS.open succeeds when
\* the file system is mounted, and the writes go through.  The heartbeat of lines 555-565 changes nothing
\* that is modelled.  The webhook channels are taken as configured and
\* answering: what they return is used nowhere.  Of the history of the
\* samples only everAbove is kept here.  (The values bound by \E over a one-element set are computed once.)
LoopPass(sampleDue, mag, dropMid, pubOk, outcomes) ==
    \E conn \in {loopConnect(wifiConnected, mqttConnected, linkOpen, wifiUp, brokerUp)} :
    \E heard \in {mqttLoop(mqttIn, Detector, wifiConnected /\ conn.linkOpen)} :
    \E d1 \in {IF sampleDue THEN addSample(heard.detector, mag, now + 1)
               ELSE heard.detector} :
    LET mqttFlag == conn.mqttConnected
        link == conn.linkOpen /\ ~dropMid
        event == d1.currentEvent
        relit == sampleDue /\ d1.triggered /\ event.alertLevel # lastAlertLevel
        handled == sampleDue /\ shouldDispatch(d1)
        online == onlinePath(wifiConnected, mqttFlag)
        channel == IF online THEN "ALL" ELSE "LOCAL"
        level1 == IF relit THEN event.alertLevel ELSE localLevel
        lit1 == IF relit THEN setAlertLevel(indicator, event.alertLevel) ELSE indicator
        sent == sendAlert(event, channel, Sinks, link, pubOk, HooksOk)
    IN  \E added \in {IF handled /\ ~online
                       THEN addEvent(queue, disk, event, DeviceId, mounted, TRUE)
                       ELSE [ok |-> TRUE, queue |-> queue, disk |-> disk,
                             evicted |-> FALSE]} :
        LET pub1 == IF handled /\ sent.publishOk THEN Append(published, event)
                    ELSE published
            drains == shouldDrain(wifiConnected, mqttFlag, added.queue)
            results == [n \in DOMAIN outcomes |-> link /\ outcomes[n]]
        IN  \E swept \in {IF drains
                           THEN LET drained == processQueue(added.queue, added.disk,
                                                            results, mounted, TRUE)
                                    cleared == clearSentEvents(drained.queue,
                                                               drained.disk, mounted, TRUE)
                                IN  [queue |-> cleared.queue, disk |-> cleared.disk,
                                     sentNow |-> drained.sentNow]
                           ELSE [queue |-> added.queue, disk |-> added.disk,
                                 sentNow |-> <<>>]} :
            /\ SetDetector(IF handled THEN afterDispatch(d1) ELSE d1)
            /\ lastSample' =
                  IF sampleDue
                  THEN [lastSample EXCEPT !.everAbove =
                           sampleSeen(heard.detector, lastSample, mag,
                                      now + 1).everAbove]
                  ELSE lastSample
            /\ filters' = IF sampleDue THEN update(process(filters)) ELSE filters
            /\ mqttIn' = heard.mqttIn
            /\ lastCommand' =
                  IF heard.heard
                  THEN [lastCommand EXCEPT !.recognized = heard.recognized,
                                           !.alive = heard.alive]
                  ELSE lastCommand
            /\ indicator' = IF handled /\ sent.localSet
                            THEN setAlertLevel(lit1, event.alertLevel) ELSE lit1
            /\ dispatched' = IF handled THEN Append(dispatched, event.startTime)
                             ELSE dispatched
            /\ now' = IF sampleDue THEN now + 1 ELSE now
            /\ mqttConnected' = mqttFlag
            /\ linkOpen' = link
            /\ brokerUp' = (brokerUp /\ ~dropMid)
            /\ lastAlertLevel' = IF relit THEN event.alertLevel ELSE lastAlertLevel
            /\ localLevel' = IF handled /\ sent.localSet THEN event.alertLevel
                             ELSE level1
            /\ queue' = swept.queue
            /\ disk' = swept.disk
            /\ published' = pub1 \o swept.sentNow
            /\ lastLoop' =
                  [sampled |-> sampleDue,
                   confirmedNow |-> sampleDue /\ d1.lastTransition = "detrigger"
                                       /\ d1.currentEvent.confirmed,
                   handled |-> handled,
                   event |-> IF handled THEN event ELSE EarthquakeEvent,
                   origin |-> IF handled THEN d1.fieldEpisode ELSE NoEpisode,
                   channel |-> IF handled THEN channel ELSE "none",
                   enqueued |-> handled /\ ~online,
                   netAtHandling |-> handled /\ wifiUp /\ brokerUp /\ ~dropMid,
                   publishTried |-> handled /\ sent.publishTried,
                   publishOk |-> handled /\ sent.publishOk,
                   webhookTried |-> handled /\ sent.webhook # <<>>,
                   drained |-> drains]
            /\ UNCHANGED <<mounted, pc, wifiConnected, wifiUp, lastOp, acked, prevSent,
                           lastAlert, serverVars, dashVars>>

\* the send function succeeds on the calls before the failAt-th
FailingAt(failAt) == [n \in 1..MAX_QUEUE_SIZE |-> n < failAt]

\* a pass in which no sample is due
LoopIdle ==
    /\ pc = "running"
    /\ \E failAt \in 1..(MAX_QUEUE_SIZE + 1) :
          LoopPass(FALSE, 10, FALSE, TRUE, FailingAt(failAt))

\* a pass that takes a sample
LoopSample ==
    /\ pc = "running" /\ now < MaxTime
    /\ \E mag \in Mags, dropMid \in BOOLEAN, pubOk \in BOOLEAN :
          /\ dropMid => loopConnect(wifiConnected, mqttConnected, linkOpen,
                                     wifiUp, brokerUp).linkOpen
          /\ LoopPass(TRUE, mag, dropMid, pubOk,
                      FailingAt(IF pubOk THEN MAX_QUEUE_SIZE + 1 ELSE 1))

\* an error loop that ends and lets setup() go on
SensorErrorLoopGivesUp ==
    /\ pc = "sensorError"
    /\ indicator' = soundAlarm(indicator)
    /\ pc' = "running"
    /\ UNCHANGED <<serverVars, dashVars,
                   detVars, queueVars, now, wifiConnected, mqttConnected, lastAlertLevel,
                   localLevel, envVars, histVars, filters, mqttIn, alertHist>>

\* setup() lines 456-459: one round of the loop that follows a failed
\* mpu.begin
SensorErrorLoop ==
    /\ pc = "sensorError"
    /\ indicator' = soundAlarm(indicator)
    /\ UNCHANGED <<serverVars, dashVars,
                   detVars, queueVars, mainVars, envVars, histVars, filters, mqttIn,
                   alertHist>>

Next == Setup \/ EnvChange \/ LoopIdle \/ LoopSample \/ SensorErrorLoop

Spec == Init /\ [][Next]_vars

\* loop() is called again and again; a pass that can make progress is
\* eventually taken
FairSpec == Spec /\ WF_vars(LoopIdle) /\ WF_vars(Setup)

(***************************************************************************)
(* The firmware booting on a device that has run before, with no network:  *)
(* the queue file is absent, holds a record, or holds a record whose end   *)
(* was never written.                                                      *)
(***************************************************************************)
StoredFile ==
    [kind |-> "valid",
     events |-> <<toJson(QueuedEvent(SomeEvent(160, 1), DeviceId))>>]
TornFile == [StoredFile EXCEPT !.kind = "corrupt"]

RebootInit ==
    /\ Constructed /\ config = {} /\ pc = "boot" /\ mounted = FALSE
    /\ disk \in {NoFile, TornFile, StoredFile}
    /\ wifiUp = FALSE /\ brokerUp = FALSE

RebootNext == Setup \/ LoopIdle \/ LoopSample \/ SensorErrorLoop

RebootSpec == RebootInit /\ [][RebootNext]_vars

(***************************************************************************)
(* The firmware booting with Wi-Fi but no broker, on a device whose queue  *)
(* file holds an event of an earlier run; the network then changes freely. *)
(***************************************************************************)
ReconnectInit ==
    /\ Constructed /\ config = {} /\ pc = "boot" /\ mounted = FALSE /\ disk = StoredFile
    /\ wifiUp = TRUE /\ brokerUp = FALSE

ReconnectSpec == ReconnectInit /\ [][Next]_vars

(***************************************************************************)
(* The firmware booting with the network up, and the server sending the    *)
(* device one command.                                                     *)
(***************************************************************************)
CommandInit ==
    /\ Constructed /\ config = {} /\ pc = "boot" /\ mounted = FALSE /\ disk = NoFile
    /\ wifiUp = TRUE /\ brokerUp = TRUE

\* POST /devices/:deviceId/command with a command in the body: the server
\* publishes it on the device's command topic, and the broker forwards it
ServerCommand ==
    /\ pc = "running" /\ brokerUp /\ lastCommand.sent = "none"
    /\ \E command \in {"reset", "status"} :
          \E m \in {brokerForward(mqttIn, linkOpen, CommandTopic(DeviceId),
                                  stringify(command))} :
             /\ mqttIn' = m
             /\ lastCommand' = [NoCommand EXCEPT !.sent = command,
                                                 !.forwarded = (m # mqttIn)]
    /\ UNCHANGED <<serverVars, dashVars,
                   detVars, queueVars, mainVars, envVars, histVars, filters, indicator,
                   dispatched, lastAlert>>

CommandNext == Setup \/ LoopIdle \/ LoopSample \/ SensorErrorLoop \/ ServerCommand

\* loop() is called again and again
CommandSpec ==
    CommandInit /\ [][CommandNext]_vars /\ WF_vars(LoopIdle) /\ WF_vars(Setup)

(***************************************************************************)
(* AlertManager::sendAlert called on its own: every selector, every set of *)
(* sinks, the broker connection open or not, every state of the webhook    *)
(* channels.                                                               *)
(***************************************************************************)
AlertInit ==
    /\ Constructed /\ config = {} /\ pc = "alertBoot" /\ mounted = FALSE /\ disk = NoFile
    /\ wifiUp = FALSE /\ brokerUp = FALSE

\* the local indicator is initialised and shows some level
AlertSetup ==
    /\ pc = "alertBoot"
    /\ \E mag \in Mags :
          /\ localLevel' = determineAlertLevel(mag)
          /\ indicator' = setAlertLevel(localAlertInit(indicator),
                                        determineAlertLevel(mag))
    /\ pc' = "alert"
    /\ UNCHANGED <<serverVars, dashVars,
                   detVars, queueVars, now, wifiConnected, mqttConnected, lastAlertLevel,
                   envVars, histVars, filters, mqttIn, alertHist>>

SendAlert ==
    /\ pc = "alert"
    /\ \E mag \in Mags, channel \in AlertChannel, sinks \in SUBSET Sinks,
          link \in BOOLEAN, pubOk \in BOOLEAN, hooks \in [Hooks -> HookStates] :
          LET event == SomeEvent(mag, 1)
              sent == sendAlert(event, channel, sinks, link, pubOk, hooks)
          IN  /\ localLevel' = IF sent.localSet THEN event.alertLevel ELSE localLevel
              /\ indicator' = IF sent.localSet
                              THEN setAlertLevel(indicator, event.alertLevel)
                              ELSE indicator
              /\ lastAlert' =
                    [called |-> TRUE, channel |-> channel, sinks |-> sinks,
                     link |-> link, level |-> event.alertLevel,
                     prevLevel |-> localLevel,
                     hooks |-> IF sent.webhook # <<>> THEN hooks ELSE HooksOk,
                     localSet |-> sent.localSet, publishTried |-> sent.publishTried,
                     publishOk |-> sent.publishOk, webhook |-> sent.webhook]
    /\ pc' = "alertDone"
    /\ UNCHANGED <<serverVars, dashVars,
                   detVars, queueVars, now, wifiConnected, mqttConnected, lastAlertLevel,
                   envVars, histVars, filters, mqttIn, dispatched, lastCommand>>

AlertNext == AlertSetup \/ SendAlert

AlertSpec == AlertInit /\ [][AlertNext]_vars

(***************************************************************************)
(* Claims about detection and dispatch.                                    *)
(***************************************************************************)
InSeq(seq, x) == \E i \in 1..Len(seq) : seq[i] = x

\* C1: the pass of the loop in which addSample confirms an event also hands
\* that event to sendAlert (with addEvent when offline).
C1_ConfirmedEventHandledInSamePass ==
    lastLoop.confirmedNow => lastLoop.handled

\* C2: after a detrigger sample the current event is confirmed if and only if
\* the episode lasted at least the minimum duration, whatever came before.
C2_ConfirmedIffLongEnough ==
    lastTransition = "detrigger" =>
        (currentEvent.confirmed <=> currentEvent.duration >= MIN_EVENT_DURATION)

\* C3: an event handed to sendAlert or addEvent is confirmed and all its
\* fields were computed from one and the same episode.
C3_HandledEventFromOneEpisode ==
    lastLoop.handled =>
        /\ lastLoop.event.confirmed
        /\ \E ep \in 1..MaxTime : \A f \in EventFields : lastLoop.origin[f] = ep

\* C4: after the loop has handled a confirmed event, the event has been
\* published successfully or is stored unsent in the queue.
C4_PublishedOrQueued ==
    lastLoop.handled =>
        \/ InSeq(published, lastLoop.event)
        \/ \E i \in 1..Len(queue) : queue[i].event = lastLoop.event /\ ~queue[i].sent

\* C5: if the queue holds unsent events and Wi-Fi and broker are available
\* from then on, every queued event is eventually published and swept.
C5_QueueEventuallyDrained ==
    []((getUnsentCount(queue) > 0 /\ [](wifiUp /\ brokerUp))
          => <>(getUnsentCount(queue) = 0))

\* C6: an event handled while the network is unavailable is appended to the
\* queue and dispatched LOCAL only: no publish, no webhook call, and it is in
\* the queue afterwards.
C6_OfflineEventQueuedLocalOnly ==
    (lastLoop.handled /\ ~lastLoop.netAtHandling) =>
        /\ lastLoop.enqueued
        /\ lastLoop.channel = "LOCAL"
        /\ ~lastLoop.publishTried /\ ~lastLoop.webhookTried
        /\ \E i \in 1..Len(queue) : queue[i].event = lastLoop.event

AlertRank(level) ==
    CASE level = "NEGLIGIBLE" -> 0 [] level = "LIGHT" -> 1 [] level = "MODERATE" -> 2
      [] level = "STRONG" -> 3 [] level = "SEVERE" -> 4 [] level = "EXTREME" -> 5
      [] OTHER -> -1

\* C12: as long as no sample has had an STA/LTA ratio above the trigger
\* threshold, the detector is not triggered after any addSample and no event
\* has been confirmed, dispatched, published or enqueued.
C12_QuietStaysIdle ==
    ~lastSample.everAbove =>
        /\ ~triggered /\ triggerTime = 0
        /\ ~currentEvent.confirmed
        /\ ~lastLoop.handled
        /\ queue = <<>> /\ published = <<>> /\ disk = NoFile

C12_Witness ==
    /\ pc = "running" /\ now = MaxTime
    /\ lastLoop.sampled /\ ~lastSample.everAbove
    /\ Len(sampleBuffer) >= ltaWindowSamples
    /\ sampleBuffer[Len(sampleBuffer)].mag >= PGA_THRESHOLD_STRONG
    /\ \E i \in 1..Len(sampleBuffer) : sampleBuffer[i].mag < PGA_THRESHOLD_LIGHT

\* C13: from the trigger sample to the end of the episode the alert level of
\* the current event never decreases from one addSample call to the next.
C13_AlertLevelMonotonic ==
    (lastSample.fed /\ lastSample.wasTriggered) =>
        AlertRank(currentEvent.alertLevel) >= AlertRank(lastSample.prevLevel)

C13_Witness ==
    /\ lastSample.fed /\ lastSample.wasTriggered
    /\ AlertRank(lastSample.prevLevel) >= 0
    /\ AlertRank(currentEvent.alertLevel) > AlertRank(lastSample.prevLevel)

\* C14: a sample takes the detector from IDLE to TRIGGERED only if its ratio
\* is above the trigger threshold and from TRIGGERED to IDLE only if its ratio
\* is below the detrigger threshold; a sample whose ratio lies between the two
\* (or that comes before the ratio is computed) leaves the state as it was,
\* and no sample both triggers and detriggers.
C14_Hysteresis ==
    lastSample.fed =>
        /\ (~lastSample.wasTriggered /\ triggered) => lastSample.above
        /\ (lastSample.wasTriggered /\ ~triggered) => lastSample.below
        /\ (~lastSample.above /\ ~lastSample.below) =>
               /\ triggered = lastSample.wasTriggered
               /\ lastTransition = "none"
        /\ ~(~lastSample.wasTriggered /\ lastTransition = "detrigger")
        /\ ~(lastSample.above /\ lastSample.below)

C14_Witness ==
    /\ lastSample.fed /\ lastSample.computed
    /\ ~lastSample.above /\ ~lastSample.below
    /\ lastSample.wasTriggered /\ triggered

\* the table of alert levels: each level with its lowest peak acceleration
AlertTable ==
    << [level |-> "NEGLIGIBLE", from |-> 0], [level |-> "LIGHT", from |-> 30],
       [level |-> "MODERATE", from |-> 80], [level |-> "STRONG", from |-> 150],
       [level |-> "SEVERE", from |-> 250], [level |-> "EXTREME", from |-> 450] >>

\* C16: determineAlertLevel(pga) is the level of the highest threshold of the
\* table that is <= pga; a value equal to a threshold gets that threshold's
\* level.
C16_LevelOfHighestThresholdBelow ==
    (pc = "classify" /\ currentEvent.alertLevel # "") =>
        LET reached == {i \in 1..Len(AlertTable) : AlertTable[i].from <= currentEvent.pga}
            top == CHOOSE i \in reached : \A j \in reached : j <= i
        IN  currentEvent.alertLevel = AlertTable[top].level

C16_Witness ==
    /\ pc = "classify"
    /\ currentEvent.pga = 150 /\ currentEvent.alertLevel = "STRONG"

\* C15: fed one STA window of quiet samples, then a burst of two STA windows
\* at a strong level, then quiet again, a freshly constructed detector has
\* triggered during the burst with an alert level of at least STRONG, and
\* after the return to quiet the episode is confirmed with a duration of the
\* burst length, give or take one sample.
C15_BurstScenarioDetected ==
    lastSample.onScenario =>
        /\ now = ScenarioQuiet + ScenarioBurst =>
               /\ triggered
               /\ triggerTime > ScenarioQuiet
               /\ AlertRank(currentEvent.alertLevel) >= AlertRank("STRONG")
        /\ now = MaxTime =>
               /\ currentEvent.confirmed
               /\ currentEvent.duration >= ScenarioBurst - 1
               /\ currentEvent.duration <= ScenarioBurst + 1

(***************************************************************************)
(* Claims about the event queue.                                           *)
(***************************************************************************)
\* C7: after a power loss at any point and a reboot whose storage mounts and
\* opens, init() restores every unsent event whose addEvent had returned
\* success and that was not evicted.
C7_CrashSafe ==
    (lastOp.op = "init" /\ lastOp.mountOk /\ lastOp.canOpen)
        => acked \subseteq UnsentStarts(queue, Len(queue))

\* C8: with m unsent entries and a send function that first fails on call k
\* (1 <= k <= m), processQueue calls it exactly k times, marks the first k-1
\* unsent entries sent, leaves all later ones unsent, and keeps the number and
\* the order of the entries.
C8_StopsAtFirstFailure ==
    lastOp.op = "processQueue" =>
        LET pre == lastOp.pre
            m == getUnsentCount(pre)
            k == lastOp.firstFailure
        IN  (1 <= k /\ k <= m) =>
                /\ lastOp.calls = k
                /\ Len(queue) = Len(pre)
                /\ \A i \in 1..Len(pre) :
                      /\ queue[i].event = pre[i].event
                      /\ queue[i].deviceId = pre[i].deviceId
                      /\ queue[i].sent = (pre[i].sent \/ CountUnsent(pre, i) < k)

C8_Witness ==
    /\ lastOp.op = "processQueue"
    /\ getUnsentCount(lastOp.pre) = 3
    /\ lastOp.firstFailure = 3
    /\ lastOp.calls = 3
    /\ queue[1].sent /\ queue[2].sent /\ ~queue[3].sent

\* C9: a drain never hands an entry to the send function while an earlier
\* entry of the queue is unsent, and the entries sent, over all drains, are
\* sent in insertion order (increasing start time).
C9_DrainsKeepInsertionOrder ==
    lastOp.op = "processQueue" =>
        /\ \A i \in 1..Len(lastOp.handed) : lastOp.handed[i].earlierUnsent = 0
        /\ \A i \in 1..Len(lastOp.sentNow) :
              lastOp.sentNow[i].startTime >
                  (IF i = 1 THEN lastOp.prevSent ELSE lastOp.sentNow[i - 1].startTime)

C9_Witness ==
    /\ lastOp.op = "processQueue"
    /\ lastOp.prevSent > 0
    /\ Len(lastOp.sentNow) >= 1
    /\ Len(lastOp.handed) > Len(lastOp.sentNow)
    /\ \E i \in 1..Len(lastOp.pre) : lastOp.pre[i].sent

\* C10: the queue never holds more than MAX_QUEUE_SIZE entries, whether the
\* storage writes succeed or fail.
C10_QueueBounded == Len(queue) <= MAX_QUEUE_SIZE

C10_Witness ==
    /\ lastOp.op = "addEvent" /\ lastOp.evicted /\ ~lastOp.ok
    /\ Len(queue) = MAX_QUEUE_SIZE

\* C11: n calls of addEvent on an empty queue (nothing sent or removed in
\* between) leave exactly min(n, MAX_QUEUE_SIZE) entries: the most recently
\* added events, in insertion order, all unsent; an addEvent that evicts the
\* oldest entry still returns true when the file could be opened.
C11_KeepsMostRecentInOrder ==
    /\ (pc = "queue" /\ prevSent = 0) =>
          LET kept == Min2(now, MAX_QUEUE_SIZE)
          IN  /\ Len(queue) = kept
              /\ \A i \in 1..kept :
                    /\ queue[i].event.startTime = now - kept + i
                    /\ queue[i].event = SomeEvent(queue[i].event.pga, now - kept + i)
                    /\ queue[i].deviceId = DeviceId
                    /\ ~queue[i].sent
    /\ (lastOp.op = "addEvent" /\ lastOp.evicted) =>
          /\ lastOp.ok = lastOp.canOpen
          /\ Len(lastOp.pre) = MAX_QUEUE_SIZE
          /\ queue = Append(Tail(lastOp.pre), queue[Len(queue)])

C11_Witness ==
    /\ prevSent = 0 /\ now = MaxAdds
    /\ lastOp.op = "addEvent" /\ lastOp.evicted /\ lastOp.ok
    /\ Len(queue) = MAX_QUEUE_SIZE
    /\ queue[1].event.startTime = MaxAdds - MAX_QUEUE_SIZE + 1
    /\ ~lastOp.pre[1].sent

\* the operations that rewrite the queue file
Mutating == {"addEvent", "processQueue", "clearSentEvents", "clearAll"}

\* the operation just completed wrote the file: it was opened, written out,
\* and (for processQueue) at least one entry was marked sent
WroteFile ==
    /\ lastOp.op \in Mutating /\ lastOp.canOpen /\ lastOp.writeOk
    /\ lastOp.op = "processQueue" => Len(lastOp.sentNow) > 0

\* C17: the queue (at most MAX_QUEUE_SIZE entries) written by saveToDisk and
\* read back by loadFromDisk gives the same QueuedEvent records, field for
\* field, in the same order and number.
C17_SaveLoadRoundTrip ==
    WroteFile =>
        loadFromDisk(<<>>, disk, TRUE) = [ok |-> TRUE, queue |-> queue]

\* C18: after every mutating operation whose write succeeded the persisted
\* record is the complete in-memory queue: one element per entry, in order,
\* with the entry's fields and sent flag.
C18_FileHoldsWholeQueue ==
    WroteFile =>
        /\ disk.kind = "valid"
        /\ Len(disk.events) = Len(queue)
        /\ \A i \in 1..Len(queue) :
              i <= Len(disk.events) => disk.events[i] = toJson(queue[i])

\* C19: when the queue file is corrupt or absent at boot, init() leaves the
\* queue empty (nothing of a corrupt record is loaded) and setup() goes on
\* to the sampling loop; only a missing sensor stops it.
C19_CorruptRecordIgnoredAtBoot ==
    (lastOp.op = "init" /\ lastOp.fileKind \in {"corrupt", "absent"}) =>
        /\ (now = 0 /\ lastLoop = NoLoop) => queue = <<>>
        /\ lastOp.fileKind = "corrupt" => ~lastOp.ok
        /\ pc = IF lastOp.sensorOk THEN "running" ELSE "sensorError"

C19_Witness ==
    /\ lastOp.op = "init" /\ lastOp.fileKind = "corrupt" /\ lastOp.mountOk
    /\ lastOp.canOpen /\ ~lastOp.ok
    /\ pc = "running" /\ now = MaxTime
    /\ lastLoop.handled /\ lastLoop.enqueued
    /\ disk.kind = "valid"

\* C20: when the write of addEvent fails (the file cannot be opened, or it
\* is opened and cannot be written), addEvent returns false, the new event is
\* the last entry of the in-memory queue and unsent, the queue is within its
\* bound, and a later processQueue whose sends all succeed still sends it.
C20_FailedWriteReportedQueueKept ==
    /\ (lastOp.op = "addEvent" /\ ~(lastOp.canOpen /\ lastOp.writeOk)) =>
          /\ ~lastOp.ok
          /\ Len(queue) >= 1 /\ Len(queue) <= MAX_QUEUE_SIZE
          /\ queue[Len(queue)].event.startTime = now
          /\ ~queue[Len(queue)].sent
    /\ (lastOp.op = "processQueue"
          /\ lastOp.firstFailure > getUnsentCount(lastOp.pre)) =>
          getUnsentCount(queue) = 0

(***************************************************************************)
(* Claims about reset, commands, the alert sinks and the local indicator.  *)
(***************************************************************************)
\* C21: reset() leaves the detector IDLE with an empty sample buffer and a
\* value-initialised current event (confirmed = false), and no field of any
\* later current event, its confirmation least of all, stems from the episode
\* that the reset cut short.
C21_ResetAbortsEpisode ==
    /\ lastTransition = "reset" =>
          /\ ~triggered /\ triggerTime = 0 /\ sampleBuffer = <<>>
          /\ currentEvent = EarthquakeEvent
    /\ lastSample.aborted > 0 =>
          /\ \A f \in EventFields : fieldEpisode[f] # lastSample.aborted
          /\ currentEvent.startTime # lastSample.aborted
          /\ triggerTime # lastSample.aborted

\* an episode was cut short by reset(), and a later episode has been confirmed
C21_Witness ==
    /\ lastSample.aborted > 0
    /\ currentEvent.confirmed /\ fieldEpisode["confirmed"] > lastSample.aborted

\* C22: a command the server publishes on the device's command topic while
\* the device is connected to the broker is received and recognised, as long
\* as the connection stays open: after "reset" the callback resets the
\* detector, after "status" it sends a status message.
C22_CommandReceivedAndRecognized ==
    /\ [](lastCommand.sent = "reset" =>
             <>(lastCommand.recognized = "reset" \/ ~linkOpen))
    /\ [](lastCommand.sent = "status" =>
             <>((lastCommand.recognized = "status" /\ lastCommand.alive) \/ ~linkOpen))

\* C23: whenever the detector has just been reset (at boot, by a command,
\* after a dispatch), the band-pass and Kalman filters are in the state
\* their constructors leave, so no sample taken before the reset shapes the
\* filtered samples after it.
C23_FiltersResetWithDetector ==
    lastTransition = "reset" => filters = FiltersConstructed

\* C24: the events handed to sendAlert belong to distinct episodes: their
\* start times increase strictly, so no event is handed on twice; and the
\* pass that hands an event on leaves the detector reset, with nothing
\* confirmed that a later pass could hand on again.
C24_DispatchedAtMostOnce ==
    /\ \A i \in 1..Len(dispatched) : \A j \in 1..Len(dispatched) :
          i < j => dispatched[i] < dispatched[j]
    /\ lastLoop.handled =>
          /\ ~triggered /\ ~currentEvent.confirmed /\ sampleBuffer = <<>>
          /\ dispatched[Len(dispatched)] = lastLoop.event.startTime
          /\ lastLoop.enqueued =>
                Cardinality({i \in 1..Len(queue) :
                                queue[i].event.startTime = lastLoop.event.startTime}) <= 1

\* an event has been dispatched, and the loop has taken a further sample
\* without dispatching
C24_Witness ==
    /\ Len(dispatched) > 0
    /\ lastLoop.sampled /\ ~lastLoop.handled

\* C25: sendAlert drives the sinks its selector names and no other.  ALL:
\* the local indicator, the network publish if the broker connection is
\* open, and the webhook fan-out; LOCAL: the local indicator only; MQTT: the
\* network publish only, if the connection is open.  A sink that was not
\* provided is skipped, and the others are driven all the same.
C25_SendAlertRoutesBySelector ==
    lastAlert.called =>
       LET a == lastAlert
           has(sink) == sink \in a.sinks
       IN  /\ a.channel = "ALL" =>
                /\ a.localSet = has("local")
                /\ a.publishTried = (has("mqtt") /\ a.link)
                /\ (a.webhook # <<>>) = has("webhook")
           /\ a.channel = "LOCAL" =>
                /\ a.localSet = has("local")
                /\ ~a.publishTried /\ a.webhook = <<>>
           /\ a.channel = "MQTT" =>
                /\ a.publishTried = (has("mqtt") /\ a.link)
                /\ ~a.localSet /\ a.webhook = <<>>
           /\ a.publishOk => a.publishTried
           /\ localLevel = (IF a.localSet THEN a.level ELSE a.prevLevel)
           /\ indicator = setAlertLevel(IndicatorOff, localLevel)

\* an ALL alert with the broker connection closed and no webhook sink: the
\* local indicator is driven, nothing is published, no webhook is called
C25_Witness ==
    /\ lastAlert.called /\ lastAlert.channel = "ALL"
    /\ lastAlert.sinks = {"local", "mqtt"} /\ ~lastAlert.link
    /\ lastAlert.localSet /\ ~lastAlert.publishTried /\ lastAlert.webhook = <<>>
    /\ lastAlert.level # lastAlert.prevLevel

\* C26: a webhook fan-out calls the Pushover, Telegram and Discord senders
\* once each, in this order, whatever the others return; a channel makes its
\* request exactly when its own credentials are set, and succeeds exactly
\* when its own request does.
C26_EachWebhookTriedOnce ==
    lastAlert.webhook # <<>> =>
       LET calls == lastAlert.webhook
       IN  /\ \A h \in Hooks :
                 Cardinality({i \in 1..Len(calls) : calls[i].channel = h}) = 1
           /\ \A i \in 1..Len(calls) :
                 /\ calls[i].posted = (lastAlert.hooks[calls[i].channel] # "unset")
                 /\ calls[i].ok = (lastAlert.hooks[calls[i].channel] = "ok")
           /\ lastAlert.localSet = ("local" \in lastAlert.sinks)

\* the Pushover request fails and the Telegram and Discord requests are
\* still made
C26_Witness ==
    /\ Len(lastAlert.webhook) = 3
    /\ lastAlert.hooks["pushover"] = "fail"
    /\ lastAlert.webhook[2].posted /\ lastAlert.webhook[3].posted
    /\ lastAlert.webhook[3].ok

\* C27: after every pass of the loop that leaves the detector TRIGGERED, the
\* level last given to setAlertLevel is the current event's alertLevel; and
\* once setAlertLevel has been called exactly one LED is lit: red with the
\* siren for STRONG, SEVERE and EXTREME, yellow with a short tone for
\* MODERATE and LIGHT, green with no sound for NEGLIGIBLE.
C27_IndicatorShowsCurrentLevel ==
    /\ (pc = "running" /\ triggered) => localLevel = currentEvent.alertLevel
    /\ pc = "running" =>
          LET lit == {led \in {"red", "yellow", "green"} : indicator[led]}
          IN  /\ Cardinality(lit) = 1
              /\ localLevel \in {"STRONG", "SEVERE", "EXTREME"} =>
                    lit = {"red"} /\ indicator.sound = "siren"
              /\ localLevel \in {"MODERATE", "LIGHT"} =>
                    lit = {"yellow"} /\ indicator.sound = "tone"
              /\ localLevel = "NEGLIGIBLE" =>
                    lit = {"green"} /\ indicator.sound = "none"

\* the detector is TRIGGERED on a strong event after the indicator showed a
\* lower level: the red LED is lit and the siren has sounded
C27_Witness ==
    /\ pc = "running" /\ triggered /\ currentEvent.alertLevel = "STRONG"
    /\ lastSample.everAbove /\ indicator.red /\ indicator.sound = "siren"

\* C28: clearSentEvents removes the entries whose sent flag is set and no
\* other, keeps the unsent entries in their order, and then writes the queue
\* file from what is left; afterwards getQueueSize() = getUnsentCount().
C28_ClearSentKeepsUnsentInOrder ==
    lastOp.op = "clearSentEvents" =>
       LET pre == lastOp.pre
       IN  /\ Len(queue) = getUnsentCount(pre)
           /\ \A i \in 1..Len(pre) :
                 ~pre[i].sent => queue[CountUnsent(pre, i)] = pre[i]
           /\ getQueueSize(queue) = getUnsentCount(queue)
           /\ lastOp.writeOk =>
                 /\ disk.kind = "valid"
                 /\ Len(disk.events) <= Len(queue)
                 /\ \A i \in 1..Len(disk.events) : fromJson(disk.events[i]) = queue[i]

\* a queue with a sent entry and two unsent ones was cleared and written out
C28_Witness ==
    /\ lastOp.op = "clearSentEvents" /\ lastOp.writeOk
    /\ Len(lastOp.pre) = 3 /\ lastOp.pre[1].sent
    /\ Len(queue) = 2 /\ Len(disk.events) = 2

\* C29: the sample buffer never holds more than ltaWindowSamples +
\* staWindowSamples samples, and a sample that arrives is appended, after
\* the oldest one has been dropped if the buffer was full.
C29_BufferBoundedOldestEvicted ==
    [][/\ Len(sampleBuffer') <= ltaWindowSamples + staWindowSamples
       /\ now' # now =>
             sampleBuffer' =
                (IF Len(sampleBuffer) = ltaWindowSamples + staWindowSamples
                 THEN Tail(sampleBuffer) ELSE sampleBuffer)
                \o <<[mag |-> lastSample'.mag, timestamp |-> now']>>]_vars

\* the buffer is full, the last call appended a sample, and the two oldest
\* samples have been dropped
C29_Witness ==
    /\ Len(sampleBuffer) = ltaWindowSamples + staWindowSamples
    /\ sampleBuffer[1].timestamp > 2
    /\ lastSample.fed /\ sampleBuffer[Len(sampleBuffer)].timestamp = now

\* C30: when the sensor fails to initialise at boot the device stays in the
\* error loop of setup() for ever, sounding the buzzer: it has taken no
\* sample and handed on no event when it gets there, and from there it never
\* reaches loop(), feeds no sample to the detector, and neither dispatches
\* nor enqueues nor publishes anything.
C30_SensorFailureHaltsDevice ==
    /\ [](pc = "sensorError" =>
             /\ ~lastOp.sensorOk
             /\ now = 0 /\ sampleBuffer = <<>> /\ ~triggered
             /\ filters = FiltersConstructed
             /\ lastLoop = NoLoop /\ dispatched = <<>> /\ published = <<>>)
    /\ [][pc = "sensorError" =>
             /\ pc' = "sensorError"
             /\ UNCHANGED <<detVars, queueVars, now, filters, lastLoop, dispatched,
                            published>>]_vars

\* the sensor failed on a device whose queue file held an event: the error
\* tone has sounded and the loaded event stays in the queue, unsent
C30_Witness ==
    /\ pc = "sensorError" /\ indicator.sound = "tone"
    /\ Len(queue) = 1 /\ ~queue[1].sent

(***************************************************************************)
(* Claims about the averages, the drain order and the shape of the queue.  *)
(***************************************************************************)
RECURSIVE SqSumOver(_, _)
\* sum of the squared magnitudes of the samples of buf at the positions idx
SqSumOver(buf, idx) ==
    IF idx = {} THEN 0
    ELSE LET i == CHOOSE j \in idx : TRUE
         IN  buf[i].mag * buf[i].mag + SqSumOver(buf, idx \ {i})

C36_CavNeverDecreases ==
    [][(triggered /\ now' # now) => currentEvent'.cav >= currentEvent.cav]_vars

\* C35: every entry a drain hands to the send function was unsent when the
\* drain began and is handed over once; it is newer than every entry sent
\* by an earlier drain, so nothing that was sent is ever handed over again.
C35_SentEntriesNotResent ==
    lastOp.op = "processQueue" =>
        LET pre == lastOp.pre
            handed == lastOp.handed
        IN  /\ lastOp.calls = Len(handed)
            /\ \A i \in 1..Len(handed) :
                  /\ ~pre[handed[i].index].sent
                  /\ pre[handed[i].index].event.startTime = handed[i].startTime
                  /\ handed[i].startTime > lastOp.prevSent
                  /\ \A j \in 1..Len(handed) :
                        j # i => handed[j].index # handed[i].index

\* a drain found an entry sent by an earlier drain still in the queue, passed
\* over it and sent the entry behind it
C35_Witness ==
    /\ lastOp.op = "processQueue"
    /\ Len(lastOp.pre) >= 2 /\ lastOp.pre[1].sent
    /\ lastOp.pre[1].event.startTime = lastOp.prevSent
    /\ Len(lastOp.handed) = 1 /\ lastOp.handed[1].index = 2
    /\ Len(lastOp.sentNow) = 1

\* C38: in the queue the sent entries come first: no unsent entry precedes a
\* sent one, after any sequence of boots on the file the queue wrote, adds,
\* drains and clears.
C38_SentEntriesFormPrefix ==
    \A i \in 1..Len(queue) : \A j \in 1..Len(queue) :
        (i < j /\ queue[j].sent) => queue[i].sent

\* a boot has loaded a queue whose first entry is sent and whose second is not
C38_Witness ==
    /\ lastOp.op = "init" /\ lastOp.ok
    /\ Len(queue) = 2 /\ queue[1].sent /\ ~queue[2].sent

\* C37: the events reach the broker in the order of their confirmation: the
\* published events have increasing start times, and no unsent entry of the
\* queue is older than an event already published.
C37_PublishedInConfirmationOrder ==
    /\ \A i \in 1..Len(published) : \A j \in 1..Len(published) :
          i < j => published[i].startTime < published[j].startTime
    /\ \A k \in 1..Len(published) : \A i \in 1..Len(queue) :
          ~queue[i].sent => queue[i].event.startTime > published[k].startTime

(***************************************************************************)
(* The server: DatabaseService, AlertService and the handlers of index.ts. *)
(***************************************************************************)

\* the 1000 alerts DatabaseService.saveAlert keeps, scaled down
MaxStored == 3

\* the largest limit asked of getRecentAlerts
MaxLimit == 4

\* the number of alert messages the broker delivers to the server
MaxMessages == 3

Devices == {"ESP32_A", "ESP32_B"}
Stamps == {1, 2}
AlertLevels == {"MODERATE", "STRONG", "EXTREME"}

\* interface EarthquakeAlert: the fields the server and the dashboard read.
\* timestamp is the device's millis() when it published (publishAlert)
EarthquakeAlerts ==
    [device_id : Devices, timestamp : Stamps, alert_level : AlertLevels,
     confirmed : BOOLEAN]

\* the alerts the tests give to one service: one device
TestAlerts == {a \in EarthquakeAlerts : a.device_id = "ESP32_A"}

\* the alerts given to processAlert: of every level, confirmed or not
NotifiedAlerts == {a \in TestAlerts : a.timestamp = 1}

\* the alerts a device publishes: loop() hands on confirmed events only
DeviceAlerts ==
    {a \in EarthquakeAlerts : a.confirmed /\ a.alert_level # "EXTREME"}

\* AlertService.loadConfig: a channel is configured when its environment
\* variables are set
Channels == {"pushover", "telegram", "discord"}

\* Array.prototype.slice(0, end): a negative end counts from the end
slice(arr, end) ==
    LET k == IF end < 0 THEN (IF Len(arr) + end < 0 THEN 0 ELSE Len(arr) + end)
             ELSE Min2(end, Len(arr))
    IN  SubSeq(arr, 1, k)

\* a saveAlert that pushes the alert at the end and keeps the last MaxStored
saveAlertPushing(store, alert) ==
    LET pushed == store \o <<alert>>
    IN  IF Len(pushed) > MaxStored THEN Tail(pushed) ELSE pushed

\* DatabaseService.saveAlert: unshift, then keep the first MaxStored.  The
\* random _id and createdAt of the stored copy are not kept here.
saveAlert(store, alert) ==
    LET unshifted == <<alert>> \o store
    IN  IF Len(unshifted) > MaxStored THEN slice(unshifted, MaxStored)
        ELSE unshifted

\* DatabaseService.getRecentAlerts
getRecentAlerts(store, limit) == slice(store, limit)

\* DatabaseService.getAlertStats: totalAlerts
totalAlerts(store) == Len(store)

\* AlertService.shouldSendNotification
shouldSendNotification(alert) ==
    alert.confirmed /\ alert.alert_level \in {"STRONG", "SEVERE", "EXTREME"}

\* a sendNotifications that awaits Promise.all: it rejects when a channel does
sendNotificationsAll(cfg, settles) ==
    [attempted |-> cfg, failed |-> {c \in cfg : ~settles[c]},
     rejected |-> \E c \in cfg : ~settles[c]]

\* AlertService.sendNotifications: one request per configured channel;
\* settles[c] tells whether the request to c resolves.  Promise.allSettled
\* waits for all of them and never rejects.
sendNotifications(cfg, settles) ==
    [attempted |-> cfg, failed |-> {c \in cfg : ~settles[c]}, rejected |-> FALSE]

\* AlertService.processAlert: notify if need be, and when that has not thrown,
\* save
processAlert(store, cfg, alert, settles) ==
    LET shouldNotify == shouldSendNotification(alert)
        sent == IF shouldNotify THEN sendNotifications(cfg, settles)
                ELSE [attempted |-> {}, failed |-> {}, rejected |-> FALSE]
    IN  [alerts |-> IF sent.rejected THEN store ELSE saveAlert(store, alert),
         shouldNotify |-> shouldNotify, attempted |-> sent.attempted,
         failed |-> sent.failed, stored |-> ~sent.rejected]

\* the services after construction, with the channels of the environment
ServerInit(channels) ==
    /\ Constructed /\ pc = "server" /\ mounted = FALSE /\ disk = NoFile
    /\ wifiUp = FALSE /\ brokerUp = FALSE
    /\ config \in channels

\* a call of databaseService.saveAlert
DbSaveAlert ==
    /\ pc = "server"
    /\ \E alert \in TestAlerts :
          /\ alerts' = saveAlert(alerts, alert)
          /\ serverHist' = [NoServerHistory EXCEPT !.op = "saveAlert", !.alert = alert,
                                                   !.stored = TRUE]
    /\ UNCHANGED <<detVars, queueVars, mainVars, envVars, histVars, ioVars, alertHist,
                   config, clientQueue, dashVars>>

\* a call of getRecentAlerts(limit)
DbGetRecentAlerts ==
    /\ pc = "server"
    /\ \E limit \in 0..MaxLimit :
          serverHist' = [NoServerHistory EXCEPT !.op = "getRecentAlerts",
                                                !.limit = limit,
                                                !.result = getRecentAlerts(alerts, limit)]
    /\ UNCHANGED <<detVars, queueVars, mainVars, envVars, histVars, ioVars, alertHist,
                   alerts, config, clientQueue, dashVars>>

DatabaseInit == ServerInit({{}})

DatabaseNext == DbSaveAlert \/ DbGetRecentAlerts

DatabaseSpec == DatabaseInit /\ [][DatabaseNext]_vars

\* a call of alertService.processAlert
ProcessAlert ==
    /\ pc = "server"
    /\ \E alert \in NotifiedAlerts, settles \in [config -> BOOLEAN] :
          \E done \in {processAlert(alerts, config, alert, settles)} :
             /\ alerts' = done.alerts
             /\ serverHist' =
                   [NoServerHistory EXCEPT !.op = "processAlert", !.alert = alert,
                                           !.shouldNotify = done.shouldNotify,
                                           !.attempted = done.attempted,
                                           !.failed = done.failed,
                                           !.stored = done.stored]
    /\ UNCHANGED <<detVars, queueVars, mainVars, envVars, histVars, ioVars, alertHist,
                   config, clientQueue, dashVars>>

NotifyInit == ServerInit(SUBSET Channels)

NotifySpec == NotifyInit /\ [][ProcessAlert]_vars

(***************************************************************************)
(* The server's alert handler and the dashboard that shows the alerts.     *)
(***************************************************************************)

\* the 50 alerts the dashboard asks for and keeps, scaled down
DashboardLimit == 3

\* the number of WebSockets one effect may open
MaxSockets == 3

\* index.ts broadcastToClients: the message goes to the clients whose socket
\* is open, here the dashboard's
broadcastToClients(inFlight, ws, alert) ==
    IF ws = "open" THEN Append(inFlight, alert) ELSE inFlight

\* index.ts mqttService.on('alert'): save the alert, process it, and when
\* that has not thrown, broadcast it.  The handler is taken in one step.
OnAlert ==
    /\ pc = "server" /\ serverHist.handled < MaxMessages
    /\ \E alert \in DeviceAlerts, settles \in [config -> BOOLEAN] :
          \E done \in {processAlert(saveAlert(alerts, alert), config, alert, settles)} :
             /\ alerts' = done.alerts
             /\ clientQueue' = IF done.stored
                               THEN broadcastToClients(clientQueue, effect.ws, alert)
                               ELSE clientQueue
             /\ serverHist' =
                   [NoServerHistory EXCEPT !.handled = serverHist.handled + 1,
                                           !.op = "onAlert", !.alert = alert,
                                           !.stored = done.stored]
    /\ UNCHANGED <<detVars, queueVars, mainVars, envVars, histVars, ioVars, alertHist,
                   config, dashVars>>

\* Dashboard.tsx fetchAlerts, run once by the first effect: GET
\* /api/alerts?limit=50 and setAlerts with the answer, or setError when the
\* request fails
FetchAlerts ==
    /\ pc \in {"server", "dashboard"} /\ ~dashboard.fetched
    /\ \E ok \in BOOLEAN :
          dashboard' =
             IF ok
             THEN [dashboard EXCEPT !.fetched = TRUE,
                                    !.alerts = getRecentAlerts(alerts, DashboardLimit)]
             ELSE [dashboard EXCEPT !.fetched = TRUE,
                                    !.error = "Failed to fetch alerts"]
    /\ UNCHANGED <<detVars, queueVars, mainVars, envVars, histVars, ioVars, alertHist,
                   serverVars, effect>>

\* Dashboard.tsx connect (lines 58-99): a new WebSocket, counted after the
\* cleanup apart
connect(e) ==
    [e EXCEPT !.ws = "connecting", !.opened = e.opened + 1,
              !.openedAfterCleanup =
                  IF e.cleanedUp THEN e.openedAfterCleanup + 1
                  ELSE e.openedAfterCleanup]

\* line 101: the effect runs and connects
Connect ==
    /\ pc \in {"server", "dashboard"} /\ effect = EffectNotRun
    /\ effect' = connect(effect)
    /\ UNCHANGED <<detVars, queueVars, mainVars, envVars, histVars, ioVars, alertHist,
                   serverVars, dashboard>>

\* ws.onopen (lines 61-65)
WsOpen ==
    /\ pc \in {"server", "dashboard"} /\ effect.ws = "connecting"
    /\ effect' = [effect EXCEPT !.ws = "open"]
    /\ dashboard' = [dashboard EXCEPT !.connected = TRUE, !.error = "null"]
    /\ UNCHANGED <<detVars, queueVars, mainVars, envVars, histVars, ioVars, alertHist,
                   serverVars>>

\* ws.onmessage (lines 67-88) for an earthquake_alert: the alert goes in
\* front and the first 50 are kept
OnMessage ==
    /\ pc \in {"server", "dashboard"} /\ effect.ws = "open" /\ clientQueue # <<>>
    /\ dashboard' =
          [dashboard EXCEPT !.alerts = slice(<<Head(clientQueue)>> \o dashboard.alerts,
                                             DashboardLimit)]
    /\ clientQueue' = Tail(clientQueue)
    /\ UNCHANGED <<detVars, queueVars, mainVars, envVars, histVars, ioVars, alertHist,
                   alerts, config, serverHist, effect>>

\* the server with no channel configured or all of them, and a dashboard
\* about to load
ServerSpecInit == ServerInit({{}, Channels})

ServerNext == OnAlert \/ FetchAlerts \/ Connect \/ WsOpen \/ OnMessage

ServerSpec == ServerSpecInit /\ [][ServerNext]_vars

(***************************************************************************)
(* Claims about the server and the dashboard.                              *)
(***************************************************************************)

\* C31: processAlert stores every alert it is given, confirmed or not and
\* whether or not a notification channel fails: the alert becomes the first
\* stored alert, in front of those stored before.  Notifications are
\* attempted only for a confirmed alert of level STRONG, SEVERE or EXTREME.
C31_ProcessAlertStoresEveryAlert ==
    [][serverHist'.op = "processAlert" =>
          /\ Len(alerts') = Min2(Len(alerts) + 1, MaxStored)
          /\ alerts'[1] = serverHist'.alert
          /\ \A i \in 2..Len(alerts') : alerts'[i] = alerts[i - 1]
          /\ serverHist'.attempted # {} =>
                /\ serverHist'.alert.confirmed
                /\ serverHist'.alert.alert_level \in {"STRONG", "SEVERE", "EXTREME"}]_vars

\* a confirmed EXTREME alert went to three channels, two of them failed, and
\* it is stored in front of an unconfirmed alert stored before it
C31_Witness ==
    /\ serverHist.op = "processAlert" /\ serverHist.alert.alert_level = "EXTREME"
    /\ Cardinality(serverHist.attempted) = 3 /\ Cardinality(serverHist.failed) = 2
    /\ Len(alerts) > 1 /\ alerts[1] = serverHist.alert /\ ~alerts[2].confirmed

\* C32: getRecentAlerts(limit) returns at most limit alerts, and they are the
\* most recently saved ones, newest first: saveAlert puts the alert in front
\* of the ones saved before, keeping their order, and the result is the
\* first limit alerts of that list (all of them when there are fewer); asked
\* right after a saveAlert for at least one alert, it returns the alert just
\* saved first.
C32_RecentAlertsNewestFirst ==
    [][/\ serverHist'.op = "saveAlert" =>
             /\ alerts'[1] = serverHist'.alert
             /\ \A i \in 2..Len(alerts') : alerts'[i] = alerts[i - 1]
       /\ serverHist'.op = "getRecentAlerts" =>
             /\ Len(serverHist'.result) <= serverHist'.limit
             /\ Len(serverHist'.result) = Min2(serverHist'.limit, Len(alerts))
             /\ \A i \in 1..Len(serverHist'.result) : serverHist'.result[i] = alerts[i]
             /\ serverHist.op = "saveAlert" /\ serverHist'.limit > 0 =>
                   serverHist'.result[1] = serverHist.alert]_vars

\* the store is full, and a call for two alerts returned two different
\* alerts, the first of them unlike the oldest stored one
C32_Witness ==
    /\ serverHist.op = "getRecentAlerts" /\ serverHist.limit = 2
    /\ Len(alerts) = MaxStored /\ Len(serverHist.result) = 2
    /\ serverHist.result[1] # serverHist.result[2]
    /\ serverHist.result[1] # alerts[MaxStored]

\* C39: each alert message the server receives is stored exactly once: after
\* it has handled k alert messages the store holds exactly k alerts, and
\* totalAlerts is k.
C39_EachAlertStoredOnce ==
    pc = "server" =>
       /\ Len(alerts) = serverHist.handled
       /\ totalAlerts(alerts) = serverHist.handled

\* C33: the alert list of the dashboard, loaded by the first fetch and then
\* fed by the WebSocket, is sorted by the alerts' timestamp, newest first,
\* whichever devices the alerts come from.
C33_DashboardSortedByTimestamp ==
    \A i \in 1..(Len(dashboard.alerts) - 1) :
       dashboard.alerts[i].timestamp >= dashboard.alerts[i + 1].timestamp

(***************************************************************************)
(* The WebSocket effect of the dashboard and its cleanup.                  *)
(***************************************************************************)

\* ws.onerror (lines 95-98): the connection attempt or the connection fails
OnError ==
    /\ pc = "dashboard" /\ effect.ws \in {"connecting", "open"}
    /\ dashboard' = [dashboard EXCEPT !.connected = FALSE,
                                      !.error = "WebSocket connection error"]
    /\ UNCHANGED <<detVars, queueVars, mainVars, envVars, histVars, ioVars, alertHist,
                   serverVars, effect>>

\* the connection closes (the server or the network ends it, the attempt
\* fails, or the closing handshake started by ws.close() ends) and
\* ws.onclose (lines 90-93) runs: setConnected(false) and the reconnect timer
OnClose ==
    /\ pc = "dashboard" /\ effect.ws \in {"connecting", "open", "closing"}
    /\ effect' = [effect EXCEPT !.ws = "closed", !.reconnectTimeout = "armed"]
    /\ dashboard' = [dashboard EXCEPT !.connected = FALSE]
    /\ UNCHANGED <<detVars, queueVars, mainVars, envVars, histVars, ioVars, alertHist,
                   serverVars>>

\* the timer of line 92 fires after 5 seconds and calls connect
ReconnectTimer ==
    /\ pc = "dashboard" /\ effect.reconnectTimeout = "armed"
    /\ effect.opened < MaxSockets
    /\ effect' = connect([effect EXCEPT !.reconnectTimeout = "fired"])
    /\ UNCHANGED <<detVars, queueVars, mainVars, envVars, histVars, ioVars, alertHist,
                   serverVars, dashboard>>

\* the cleanup of the effect (lines 103-110), run at unmount or when wsUrl
\* changes: ws.close() starts the closing handshake of a socket that is not
\* closed yet, and clearTimeout cancels a timer that is waiting
Cleanup ==
    /\ pc = "dashboard" /\ effect # EffectNotRun /\ ~effect.cleanedUp
    /\ effect' =
          [effect EXCEPT !.cleanedUp = TRUE,
                         !.ws = IF effect.ws \in {"connecting", "open"} THEN "closing"
                                ELSE effect.ws,
                         !.reconnectTimeout =
                             IF effect.reconnectTimeout = "armed" THEN "cleared"
                             ELSE effect.reconnectTimeout]
    /\ UNCHANGED <<detVars, queueVars, mainVars, envVars, histVars, ioVars, alertHist,
                   serverVars, dashboard>>

\* the component has been rendered and its effects are about to run
DashboardInit ==
    /\ Constructed /\ config = {} /\ pc = "dashboard" /\ mounted = FALSE
    /\ disk = NoFile /\ wifiUp = FALSE /\ brokerUp = FALSE

DashboardNext ==
    FetchAlerts \/ Connect \/ WsOpen \/ OnError \/ OnClose \/ ReconnectTimer \/ Cleanup

DashboardSpec == DashboardInit /\ [][DashboardNext]_vars

\* C40: once the WebSocket effect has been cleaned up, no reconnect is
\* scheduled and none is performed for it: after the cleanup no reconnect
\* timer of the effect is waiting, and the effect opens no new WebSocket.
C40_NoReconnectAfterCleanup ==
    effect.cleanedUp =>
       /\ effect.reconnectTimeout # "armed"
       /\ effect.openedAfterCleanup = 0

=============================================================================
